---- MODULE Spec2Model ----
(***************************************************************************)
(* Holley Sniper EFI datalog parser (src/dlz_parser.py): the parsing       *)
(* pipeline parse_dlz_file with its text, binary and raw stages, the CSV   *)
(* export, the segment / statistics engine of SniperDatalog, and the       *)
(* sample generator generate_sample_datalog.                               *)
(*                                                                         *)
(* Representation.  A byte buffer is a sequence of 0..255.  Text is a      *)
(* sequence of code points.  A 32-bit float read from a buffer is kept as  *)
(* its bit pattern [neg, mag] (sign bit, low 31 bits) and compared through *)
(* it, so NaN, infinities, denormals and -0.0 behave as in IEEE-754.  A    *)
(* number parsed from text is a decimal fixed-point value counted in       *)
(* 1/100.  A channel value handed to the statistics engine is a finite     *)
(* number counted in 1/10 (85.0 is 850, 14.7 is 147), or NAN for a NaN.    *)
(***************************************************************************)
EXTENDS Integers, Sequences, FiniteSets, TLC

VARIABLES
    \* ---- parse_dlz_file (one call) ----
    pc,            \* position of the call
    filepath,      \* the path argument (code points)
    file,          \* the file on disk: [readable, raw, zlib, deflate]
    raw_data,      \* local raw_data
    decompressed,  \* local decompressed
    datalog,       \* local datalog (the value returned at pc = "done")
    raised,        \* an exception left parse_dlz_file
    stages,        \* the stages entered and zlib calls made so far, in order
    start_offset,  \* _parse_binary_datalog: loop variable of the outer loop
    layout,        \* _parse_binary_datalog: the accepted (offset, channels)
    unpack_calls,  \* _parse_binary_datalog: struct.unpack_from calls so far
    \* ---- statistics engine (one SniperDatalog under analysis) ----
    log,           \* the SniperDatalog
    op,            \* the operation last applied to it
    out,           \* what that operation returned
    \* ---- CSV export and re-import ----
    csv_pc,        \* position in parse / to_csv / parse
    text,          \* the delimited text first parsed
    parsed,        \* the datalog the text parser made of it
    csv_file,      \* what to_csv left on disk
    reparsed       \* the datalog the text parser makes of csv_file

vars == <<pc, filepath, file, raw_data, decompressed, datalog, raised, stages,
          start_offset, layout, unpack_calls, log, op, out,
          csv_pc, text, parsed, csv_file, reparsed>>

parse_vars == <<pc, filepath, file, raw_data, decompressed, datalog, raised,
                stages, start_offset, layout, unpack_calls>>
stats_vars == <<log, op, out>>
csv_vars == <<csv_pc, text, parsed, csv_file, reparsed>>

-----------------------------------------------------------------------------
(* Generic helpers *)

Min(S) == CHOOSE x \in S : \A y \in S : x <= y
Max(S) == CHOOSE x \in S : \A y \in S : y <= x

Range(s) == {s[i] : i \in DOMAIN s}

\* The empty dict.
EmptyDict == <<>>

\* What a path holds on disk: nothing, or a file with its content.
NoFile == [exists |-> FALSE]
FileOf(content) == [exists |-> TRUE, content |-> content]


-----------------------------------------------------------------------------
(* Text: sequences of code points *)

\* Characters of the source's string literals, each run in code-point order.
Digits == "0123456789"
Upper == "ABCDEFGHIJKLMNOPQRSTUVWXYZ"
Lower26 == "abcdefghijklmnopqrstuvwxyz"

PosIn(c, run) == {i \in 1..Len(run) : SubSeq(run, i, i) = c}

\* The code point of a one-character string.
Ord(c) ==
    CASE c = "\n" -> 10
      [] c = "\t" -> 9
      [] c = "\r" -> 13
      [] c = " " -> 32
      [] c = "\"" -> 34
      [] c = "%" -> 37
      [] c = "+" -> 43
      [] c = "," -> 44
      [] c = "-" -> 45
      [] c = "." -> 46
      [] c = "/" -> 47
      [] c = "_" -> 95
      [] PosIn(c, Digits) # {} -> 47 + Min(PosIn(c, Digits))
      [] PosIn(c, Upper) # {} -> 64 + Min(PosIn(c, Upper))
      [] PosIn(c, Lower26) # {} -> 96 + Min(PosIn(c, Lower26))

\* A string literal of the source, as code points.
E(s) == [i \in 1..Len(s) |-> Ord(SubSeq(s, i, i))]

COMMA == 44
TAB == 9
NEWLINE == 10
QUOTE == 34
SPACE == 32
UNDERSCORE == 95
SLASH == 47
CR == 13
DOT == 46
MINUS == 45
PLUS == 43
DIGIT0 == 48

\* U+FFFD, what decode(errors='replace') puts for an undecodable byte.
REPLACEMENT == 65533

\* str.isspace for the code points text can hold here (ASCII and U+FFFD).
IsSpace(c) == c \in (9..13) \cup (28..32)

IsDigit(c) == c \in DIGIT0..(DIGIT0 + 9)

\* s.strip(): without leading and trailing whitespace.
Strip(s) ==
    LET keep == {i \in DOMAIN s : ~IsSpace(s[i])}
    IN  IF keep = {} THEN <<>> ELSE SubSeq(s, Min(keep), Max(keep))

\* s.strip(ch): without leading and trailing occurrences of ch.
StripChar(s, ch) ==
    LET keep == {i \in DOMAIN s : s[i] # ch}
    IN  IF keep = {} THEN <<>> ELSE SubSeq(s, Min(keep), Max(keep))

\* s.split(d): the pieces of s between the occurrences of d (always >= 1 piece).
Split(s, d) ==
    LET seps == {i \in DOMAIN s : s[i] = d}
        from == seps \cup {0}
        startOf(k) == CHOOSE p \in from : Cardinality({q \in from : q < p}) = k - 1
        endOf(p) == Min({q \in seps : q > p} \cup {Len(s) + 1})
    IN  [k \in 1..(Cardinality(seps) + 1) |->
            SubSeq(s, startOf(k) + 1, endOf(startOf(k)) - 1)]

\* s.lower() on ASCII.
Lower(s) == [i \in DOMAIN s |-> IF s[i] \in 65..90 THEN s[i] + 32 ELSE s[i]]

\* s.replace(a, b) for single characters.
Replace(s, a, b) == [i \in DOMAIN s |-> IF s[i] = a THEN b ELSE s[i]]

\* sep.join(parts)
RECURSIVE Join(_, _)
Join(parts, sep) ==
    IF Len(parts) = 0 THEN <<>>
    ELSE IF Len(parts) = 1 THEN parts[1]
    ELSE parts[1] \o sep \o Join(Tail(parts), sep)

\* s.endswith(suffix)
EndsWith(s, suffix) ==
    /\ Len(s) >= Len(suffix)
    /\ SubSeq(s, Len(s) - Len(suffix) + 1, Len(s)) = suffix

\* A variant of basename that keeps the directories of the path.
basename_whole(path) == SubSeq(path, 1, Len(path))

\* os.path.basename(path): what follows the last '/'.
basename(path) ==
    LET cut == {i \in DOMAIN path : path[i] = SLASH}
    IN  IF cut = {} THEN path ELSE SubSeq(path, Max(cut) + 1, Len(path))

\* The value of a digit string, most significant digit first.
RECURSIVE DigitsValue(_)
DigitsValue(ds) ==
    IF Len(ds) = 0 THEN 0
    ELSE 10 * DigitsValue(SubSeq(ds, 1, Len(ds) - 1)) + (ds[Len(ds)] - DIGIT0)

\* The decimal digits of n >= 0.
RECURSIVE DigitsOf(_)
DigitsOf(n) ==
    IF n < 10 THEN <<DIGIT0 + n>>
    ELSE Append(DigitsOf(n \div 10), DIGIT0 + (n % 10))

\* float(s) on decimal literals [ws][sign]digits[.digits][ws] and
\* [ws][sign].digits[ws], the value counted in 1/100; anything else over the
\* input alphabet (digits, sign, '.', space, quote, letters other than those
\* of inf / nan / exponents) raises ValueError: [ok |-> FALSE].
ParseFloat(s) ==
    LET t == Strip(s)
        signed == Len(t) > 0 /\ t[1] \in {MINUS, PLUS}
        body == IF signed THEN Tail(t) ELSE t
        dots == {i \in DOMAIN body : body[i] = DOT}
        wellFormed ==
            /\ Cardinality(dots) <= 1
            /\ \A i \in DOMAIN body : IsDigit(body[i]) \/ body[i] = DOT
            /\ \E i \in DOMAIN body : IsDigit(body[i])
        dot == IF dots = {} THEN Len(body) + 1 ELSE Min(dots)
        whole == SubSeq(body, 1, dot - 1)
        frac == SubSeq(body, dot + 1, Len(body))
        frac2 == SubSeq(frac \o <<DIGIT0, DIGIT0>>, 1, 2)
        abs == 100 * DigitsValue(whole) + DigitsValue(frac2)
    IN  IF wellFormed
        THEN [ok |-> TRUE, val |-> IF signed /\ t[1] = MINUS THEN 0 - abs ELSE abs]
        ELSE [ok |-> FALSE]

\* str(x) of a float x counted in 1/100: the shortest decimal with at least
\* one fractional digit.
FormatFloat(v) ==
    LET abs == IF v < 0 THEN 0 - v ELSE v
        whole == DigitsOf(abs \div 100)
        cents == abs % 100
        frac == IF cents % 10 = 0 THEN <<DIGIT0 + (cents \div 10)>>
                ELSE <<DIGIT0 + (cents \div 10), DIGIT0 + (cents % 10)>>
    IN  (IF v < 0 THEN <<MINUS>> ELSE <<>>) \o whole \o <<DOT>> \o frac

-----------------------------------------------------------------------------
(* The datalog model *)

\* SniperDatalog(): the empty datalog; the callers set filename right after.
SniperDatalog(filename) ==
    [records |-> <<>>, channels |-> <<>>, sample_rate_hz |-> 10,
     metadata |-> EmptyDict, filename |-> filename, parse_errors |-> <<>>]

\* The canonical channel catalog, in declaration order.
SNIPER_CHANNELS ==
    <<"timestamp_ms", "rpm", "map_kpa", "tps_pct", "coolant_temp_f", "iat_f",
      "afr", "target_afr", "fuel_flow_lbhr", "inj_pw_ms", "ign_timing_deg",
      "battery_v", "cl_comp_pct", "learn_pct", "ae_active", "iac_counts",
      "vss_mph", "fuel_pressure_psi", "cl_status", "tps_roc", "map_roc">>

-----------------------------------------------------------------------------
(* _parse_text_datalog *)

\* The synonym table, (vendor column name, internal name).
column_map_items ==
    << <<"rpm", "rpm">>, <<"engine rpm", "rpm">>, <<"eng rpm", "rpm">>,
       <<"map", "map_kpa">>, <<"map kpa", "map_kpa">>,
       <<"manifold pressure", "map_kpa">>,
       <<"tps", "tps_pct">>, <<"tps %", "tps_pct">>, <<"throttle", "tps_pct">>,
       <<"clt", "coolant_temp_f">>, <<"coolant", "coolant_temp_f">>,
       <<"ect", "coolant_temp_f">>,
       <<"iat", "iat_f">>, <<"intake temp", "iat_f">>,
       <<"afr", "afr">>, <<"air fuel", "afr">>, <<"wbo2", "afr">>,
       <<"a/f", "afr">>,
       <<"target afr", "target_afr">>, <<"tgt afr", "target_afr">>,
       <<"fuel flow", "fuel_flow_lbhr">>, <<"fuel", "fuel_flow_lbhr">>,
       <<"pw", "inj_pw_ms">>, <<"pulse width", "inj_pw_ms">>,
       <<"injpw", "inj_pw_ms">>,
       <<"timing", "ign_timing_deg">>, <<"spark", "ign_timing_deg">>,
       <<"ign timing", "ign_timing_deg">>,
       <<"battery", "battery_v">>, <<"batt", "battery_v">>,
       <<"bat v", "battery_v">>,
       <<"cl comp", "cl_comp_pct">>, <<"clc", "cl_comp_pct">>,
       <<"learn", "learn_pct">>,
       <<"ae", "ae_active">>, <<"accel enrich", "ae_active">>,
       <<"iac", "iac_counts">>,
       <<"speed", "vss_mph">>, <<"vss", "vss_mph">>, <<"mph", "vss_mph">>,
       <<"fp", "fuel_pressure_psi">>, <<"fuel pres", "fuel_pressure_psi">>,
       <<"time", "timestamp_ms">> >>

\* column_map as a dict over code-point strings.
column_map ==
    LET items == {<<E(it[1]), E(it[2])>> : it \in Range(column_map_items)}
    IN  [k \in {it[1] : it \in items} |->
            (CHOOSE it \in items : it[1] = k)[2]]

\* One header token to its internal name: column_map.get(col_lower,
\* col_lower.replace(' ', '_')).
MapColumn(col) ==
    LET col_lower == Strip(Lower(col))
    IN  IF col_lower \in DOMAIN column_map
        THEN column_map[col_lower]
        ELSE Replace(col_lower, SPACE, UNDERSCORE)

\* One field to its value: float(val.strip().strip('"')), 0.0 on ValueError.
FieldValue(val) ==
    LET r == ParseFloat(StripChar(Strip(val), QUOTE))
    IN  IF r.ok THEN r.val ELSE 0

\* dict(zip(mapped_columns, values)) with each value converted: of two
\* columns mapped to one name the later one wins.
RecordData(mapped_columns, values) ==
    [name \in Range(mapped_columns) |->
        FieldValue(values[Max({k \in DOMAIN mapped_columns :
                                  mapped_columns[k] = name})])]

parse_text_datalog(txt, path) ==
    LET new == SniperDatalog(basename(path))
        lines == Split(Strip(txt), NEWLINE)
        header == lines[1]
        delimiter == IF COMMA \in Range(header) THEN COMMA ELSE TAB
        tokens == Split(header, delimiter)
        columns == [k \in DOMAIN tokens |-> StripChar(Strip(tokens[k]), QUOTE)]
        mapped_columns == [k \in DOMAIN columns |-> MapColumn(columns[k])]
        rows == SelectSeq(Tail(lines),
                    LAMBDA line : Len(Split(line, delimiter)) = Len(mapped_columns))
    IN  IF Len(lines) < 2 THEN new
        ELSE [new EXCEPT
                !.channels = mapped_columns,
                !.records = [i \in DOMAIN rows |->
                    RecordData(mapped_columns, Split(rows[i], delimiter))]]

-----------------------------------------------------------------------------
(* SniperDatalog.to_csv, through csv.DictWriter *)

\* One field as csv.writer writes it (QUOTE_MINIMAL, '"' doubled); alone says
\* the field is the only one of its row.
CsvField(field, alone) ==
    LET special == {COMMA, QUOTE, CR, NEWLINE}
        doubled == Join([i \in DOMAIN field |->
                            IF field[i] = QUOTE THEN <<QUOTE, QUOTE>>
                            ELSE <<field[i]>>], <<>>)
    IN  IF (Range(field) \cap special # {}) \/ (alone /\ Len(field) = 0)
        THEN <<QUOTE>> \o doubled \o <<QUOTE>>
        ELSE field

\* One row: the fields joined by ',' and ended by the line terminator \r\n.
CsvRow(fields) ==
    Join([k \in DOMAIN fields |-> CsvField(fields[k], Len(fields) = 1)], <<COMMA>>)
        \o <<CR, NEWLINE>>

\* DictWriter.writerow(rec.data): the record's value per field name, '' for
\* a name the record lacks.
CsvRecordRow(fieldnames, data) ==
    CsvRow([k \in DOMAIN fieldnames |->
        IF fieldnames[k] \in DOMAIN data THEN FormatFloat(data[fieldnames[k]])
        ELSE <<>>])

\* The rows of records 1..n, in order, up to the first record holding a key
\* that is no field name (DictWriter raises ValueError there).
RECURSIVE CsvRecordRows(_, _, _)
CsvRecordRows(fieldnames, records, n) ==
    IF n = 0 THEN [rows |-> <<>>, raised |-> FALSE]
    ELSE LET before == CsvRecordRows(fieldnames, records, n - 1)
         IN  IF before.raised THEN before
             ELSE IF ~(DOMAIN records[n] \subseteq Range(fieldnames))
             THEN [before EXCEPT !.raised = TRUE]
             ELSE [before EXCEPT
                     !.rows = @ \o CsvRecordRow(fieldnames, records[n])]

\* A variant of to_csv without the early return on an empty record list.
to_csv_unguarded(dl) ==
    LET body == CsvRecordRows(dl.channels, dl.records, Len(dl.records))
    IN  [written |-> FileOf(CsvRow(dl.channels) \o body.rows),
         raised |-> body.raised]

\* to_csv(filepath): what the call leaves at filepath (NoFile: the file is
\* not created) and whether it raised.
to_csv(dl) ==
    IF Len(dl.records) = 0 THEN [written |-> NoFile, raised |-> FALSE]
    ELSE LET body == CsvRecordRows(dl.channels, dl.records, Len(dl.records))
         IN  [written |-> FileOf(CsvRow(dl.channels) \o body.rows),
              raised |-> body.raised]

-----------------------------------------------------------------------------
(* DatalogRecord and the statistics engine.  Channel values are finite     *)
(* numbers counted in 1/10; a quotient is kept exact as [n, d] with d > 0. *)

\* What a lookup gives back: a value, None, or an exception.
Value(v) == [kind |-> "value", value |-> v]
PyNone == [kind |-> "None"]
Raises(exc) == [kind |-> "raise", exc |-> exc]

\* rec.get(key, default) with a default given by the caller.
get(data, key, default) == IF key \in DOMAIN data THEN data[key] ELSE default

\* A variant of DatalogRecord.get whose parameter default is 0.0.
record_get_zero(data, key) ==
    IF key \in DOMAIN data THEN Value(data[key]) ELSE Value(0)

\* DatalogRecord.get(key): the parameter default is None.
record_get(data, key) ==
    IF key \in DOMAIN data THEN Value(data[key]) ELSE PyNone

\* DatalogRecord.__getattr__(name), called for a name that is no attribute.
record_getattr(data, name) ==
    IF name \in DOMAIN data THEN Value(data[name]) ELSE Raises("AttributeError")

\* SniperDatalog.get_channel_data(channel)
get_channel_data(records, channel) ==
    [i \in DOMAIN records |-> get(records[i], channel, 0)]

\* float('nan') as a channel value.  No comparison holds of a NaN.
NAN == 0 - 1000000

\* float('inf') as a channel value: above every reading.
INF == 0 - NAN
Less(a, b) == a # NAN /\ b # NAN /\ a < b
Greater(a, b) == a # NAN /\ b # NAN /\ a > b
AtLeast(a, b) == a # NAN /\ b # NAN /\ a >= b

\* max(values) as the builtin folds it: the first value, given up for each
\* later value that is greater.  PyMaxFrom folds values[lo..hi] onto m, one
\* half after the other.
RECURSIVE PyMaxFrom(_, _, _, _)
PyMaxFrom(m, values, lo, hi) ==
    IF lo > hi THEN m
    ELSE IF lo = hi THEN (IF Greater(values[lo], m) THEN values[lo] ELSE m)
    ELSE LET mid == (lo + hi) \div 2
             left == PyMaxFrom(m, values, lo, mid)
         IN  IF left = left THEN PyMaxFrom(left, values, mid + 1, hi) ELSE left

PyMax(values, n) == PyMaxFrom(values[1], values, 2, n)

Rat(n, d) == [n |-> n, d |-> d]
RatEq(a, b) == a.n * b.d = b.n * a.d
RatLess(a, b) == a.n * b.d < b.n * a.d
RatAdd(a, b) == Rat(a.n * b.d + b.n * a.d, a.d * b.d)

\* sum(s[lo..hi]), one half after the other.
RECURSIVE SumFrom(_, _, _)
SumFrom(s, lo, hi) ==
    IF lo > hi THEN 0
    ELSE IF lo = hi THEN s[lo]
    ELSE LET mid == (lo + hi) \div 2
         IN  SumFrom(s, lo, mid) + SumFrom(s, mid + 1, hi)

Sum(s) == SumFrom(s, 1, Len(s))

RECURSIVE RatSum(_)
RatSum(s) == IF Len(s) = 0 THEN Rat(0, 1) ELSE RatAdd(s[1], RatSum(Tail(s)))

\* sum(values) / len(values)
Mean(values) == Rat(Sum(values), Len(values))

Abs(x) == IF x < 0 THEN 0 - x ELSE x

\* The slice [records[i] for i in range(from, to)] of a channel, indices
\* counted from 0 as in the source.
Slice(records, from, to, channel, default) ==
    [k \in 1..(IF to > from THEN to - from ELSE 0) |->
        get(records[from + k], channel, default)]

\* duration_seconds
duration_seconds(dl) ==
    IF Len(dl.records) = 0 THEN Rat(0, 1)
    ELSE Rat(Len(dl.records), Max({dl.sample_rate_hz, 1}))

\* max_rpm and max_tps: max(..., default=0)
max_channel(records, channel) ==
    IF Len(records) = 0 THEN 0
    ELSE PyMax(get_channel_data(records, channel), Len(records))

\* One pass of the loop of get_wot_runs: record n (index n - 1).
WotStep(st, records, tps_threshold, n) ==
    LET i == n - 1
        tps == get(records[n], "tps_pct", 0)
    IN  IF AtLeast(tps, tps_threshold) /\ ~st.in_wot
        THEN [st EXCEPT !.in_wot = TRUE, !.start_idx = i]
        ELSE IF Less(tps, tps_threshold) /\ st.in_wot
        THEN [st EXCEPT
                !.in_wot = FALSE,
                !.runs = IF i - st.start_idx > 3
                         THEN Append(@, <<st.start_idx, i>>) ELSE @]
        ELSE st

\* The passes for records lo..hi in order, one half after the other.
RECURSIVE WotPasses(_, _, _, _, _)
WotPasses(st, records, tps_threshold, lo, hi) ==
    IF lo > hi THEN st
    ELSE IF lo = hi THEN WotStep(st, records, tps_threshold, lo)
    ELSE LET mid == (lo + hi) \div 2
             left == WotPasses(st, records, tps_threshold, lo, mid)
         IN  IF left.in_wot \in BOOLEAN
             THEN WotPasses(left, records, tps_threshold, mid + 1, hi)
             ELSE left

\* The loop of get_wot_runs after its first n records.
WotLoop(records, tps_threshold, n) ==
    WotPasses([runs |-> <<>>, in_wot |-> FALSE, start_idx |-> 0],
              records, tps_threshold, 1, n)

\* A variant of get_wot_runs that keeps an open run of 3 records.
get_wot_runs_open3(records, tps_threshold) ==
    LET st == WotLoop(records, tps_threshold, Len(records))
    IN  IF st.in_wot /\ Len(records) - st.start_idx > 2
        THEN Append(st.runs, <<st.start_idx, Len(records) - 1>>)
        ELSE st.runs

get_wot_runs(records, tps_threshold) ==
    LET st == WotLoop(records, tps_threshold, Len(records))
    IN  IF st.in_wot /\ Len(records) - st.start_idx > 3
        THEN Append(st.runs, <<st.start_idx, Len(records) - 1>>)
        ELSE st.runs

\* One entry of wot_runs: the statistics over range(start, end).
WotRunStats(records, run) ==
    LET afr_values == Slice(records, run[1], run[2], "afr", 147)
        target_values == Slice(records, run[1], run[2], "target_afr", 128)
        rpm_values == Slice(records, run[1], run[2], "rpm", 0)
    IN  [start_idx |-> run[1],
         end_idx |-> run[2],
         avg_afr |-> Mean(afr_values),
         min_afr |-> Min(Range(afr_values)),
         max_afr |-> Max(Range(afr_values)),
         avg_target |-> Mean(target_values),
         peak_rpm |-> Max(Range(rpm_values)),
         afr_deviation |->
            Rat(Sum([k \in DOMAIN afr_values |->
                        Abs(afr_values[k] - target_values[k])]),
                Len(afr_values)),
         lean_spikes |-> Cardinality({k \in DOMAIN afr_values : afr_values[k] > 140}),
         rich_spots |-> Cardinality({k \in DOMAIN afr_values : afr_values[k] < 115})]

\* A variant of analyze_wot_afr whose overall_avg_afr is 14.7 without runs.
analyze_wot_afr_stoich(records) ==
    LET wot_runs == get_wot_runs(records, 850)
        kept == SelectSeq(wot_runs, LAMBDA run : run[2] > run[1])
        results == [k \in DOMAIN kept |-> WotRunStats(records, kept[k])]
        avgs == [k \in DOMAIN results |-> results[k].avg_afr]
    IN  [wot_runs |-> results,
         total_wot_runs |-> Len(results),
         overall_avg_afr |->
            IF Len(results) > 0
            THEN LET total == RatSum(avgs)
                 IN  Rat(total.n, total.d * Len(results))
            ELSE Rat(147, 1)]

\* A variant of analyze_wot_afr whose overall_avg_afr is the mean over all
\* samples of all runs.
analyze_wot_afr_pooled(records) ==
    LET wot_runs == get_wot_runs(records, 850)
        kept == SelectSeq(wot_runs, LAMBDA run : run[2] > run[1])
        results == [k \in DOMAIN kept |-> WotRunStats(records, kept[k])]
        sums == [k \in DOMAIN kept |->
                    Sum(Slice(records, kept[k][1], kept[k][2], "afr", 147))]
        lens == [k \in DOMAIN kept |-> kept[k][2] - kept[k][1]]
    IN  [wot_runs |-> results,
         total_wot_runs |-> Len(results),
         overall_avg_afr |->
            IF Len(results) > 0 THEN Rat(Sum(sums), Sum(lens)) ELSE Rat(0, 1)]

analyze_wot_afr(records) ==
    LET wot_runs == get_wot_runs(records, 850)
        kept == SelectSeq(wot_runs, LAMBDA run : run[2] > run[1])
        results == [k \in DOMAIN kept |-> WotRunStats(records, kept[k])]
        avgs == [k \in DOMAIN results |-> results[k].avg_afr]
    IN  [wot_runs |-> results,
         total_wot_runs |-> Len(results),
         overall_avg_afr |->
            IF Len(results) > 0
            THEN LET total == RatSum(avgs)
                 IN  Rat(total.n, total.d * Len(results))
            ELSE Rat(0, 1)]

\* A variant of the detection step whose trace ends with the event.
AeStep_short(st, records, n) ==
    LET i == n - 1
        flag == get(records[n], "ae_active", 0) # 0
    IN  IF flag /\ ~st.ae_active
        THEN [st EXCEPT !.ae_active = TRUE, !.start_idx = i]
        ELSE IF ~flag /\ st.ae_active
        THEN [st EXCEPT
                !.ae_active = FALSE,
                !.ae_events = Append(@,
                   [start |-> st.start_idx,
                    end |-> i,
                    duration_samples |-> i - st.start_idx,
                    peak_tps_roc |->
                       PyMax(Slice(records, st.start_idx, i, "tps_roc", 0),
                             i - st.start_idx),
                    afr_during |->
                       Slice(records, st.start_idx, i, "afr", 147)])]
        ELSE st

\* One pass of the detection loop of analyze_acceleration_enrichment:
\* record n (index n - 1).
AeStep(st, records, n) ==
    LET i == n - 1
        flag == get(records[n], "ae_active", 0) # 0
    IN  IF flag /\ ~st.ae_active
        THEN [st EXCEPT !.ae_active = TRUE, !.start_idx = i]
        ELSE IF ~flag /\ st.ae_active
        THEN [st EXCEPT
                !.ae_active = FALSE,
                !.ae_events = Append(@,
                   [start |-> st.start_idx,
                    end |-> i,
                    duration_samples |-> i - st.start_idx,
                    peak_tps_roc |->
                       PyMax(Slice(records, st.start_idx, i, "tps_roc", 0),
                             i - st.start_idx),
                    afr_during |->
                       Slice(records, st.start_idx,
                             Min({i + 10, Len(records)}), "afr", 147)])]
        ELSE st

\* The passes for records lo..hi in order, one half after the other.
RECURSIVE AePasses(_, _, _, _)
AePasses(st, records, lo, hi) ==
    IF lo > hi THEN st
    ELSE IF lo = hi THEN AeStep(st, records, lo)
    ELSE LET mid == (lo + hi) \div 2
             left == AePasses(st, records, lo, mid)
         IN  IF left.ae_active \in BOOLEAN
             THEN AePasses(left, records, mid + 1, hi)
             ELSE left

\* A variant of the detection loop that closes a span still open behind
\* the last record as an event.
AeLoop_open(records, n) ==
    LET st == AePasses([ae_events |-> <<>>, ae_active |-> FALSE,
                        start_idx |-> 0], records, 1, n)
    IN  IF st.ae_active
        THEN [st EXCEPT
                !.ae_active = FALSE,
                !.ae_events = Append(@,
                   [start |-> st.start_idx,
                    end |-> n,
                    duration_samples |-> n - st.start_idx,
                    peak_tps_roc |->
                       PyMax(Slice(records, st.start_idx, n, "tps_roc", 0),
                             n - st.start_idx),
                    afr_during |->
                       Slice(records, st.start_idx, n, "afr", 147)])]
        ELSE st

\* The detection loop of analyze_acceleration_enrichment after n records.
AeLoop(records, n) ==
    AePasses([ae_events |-> <<>>, ae_active |-> FALSE, start_idx |-> 0],
             records, 1, n)

\* avg_afr of one event: the mean of its trace, 14.7 for an empty trace.
AeEventAvg(event) ==
    IF Len(event.afr_during) > 0 THEN Mean(event.afr_during) ELSE Rat(147, 1)

\* A variant of analyze_acceleration_enrichment that counts a mean of 14.0
\* as lean.
analyze_acceleration_enrichment_inclusive(records) ==
    LET ae_events == AeLoop(records, Len(records)).ae_events
        lean == {k \in DOMAIN ae_events :
                    ~RatLess(AeEventAvg(ae_events[k]), Rat(140, 1))}
        rich == {k \in DOMAIN ae_events :
                    /\ k \notin lean
                    /\ RatLess(AeEventAvg(ae_events[k]), Rat(115, 1))}
    IN  [total_ae_events |-> Len(ae_events),
         lean_ae_events |-> Cardinality(lean),
         rich_ae_events |-> Cardinality(rich),
         ae_events |-> SubSeq(ae_events, 1, Min({20, Len(ae_events)}))]

\* A variant of analyze_acceleration_enrichment that counts the classes
\* over the events it lists.
analyze_acceleration_enrichment_listed(records) ==
    LET all_events == AeLoop(records, Len(records)).ae_events
        ae_events == SubSeq(all_events, 1, Min({20, Len(all_events)}))
        lean == {k \in DOMAIN ae_events :
                    RatLess(Rat(140, 1), AeEventAvg(ae_events[k]))}
        rich == {k \in DOMAIN ae_events :
                    /\ k \notin lean
                    /\ RatLess(AeEventAvg(ae_events[k]), Rat(115, 1))}
    IN  [total_ae_events |-> Len(all_events),
         lean_ae_events |-> Cardinality(lean),
         rich_ae_events |-> Cardinality(rich),
         ae_events |-> ae_events]

analyze_acceleration_enrichment(records) ==
    LET ae_events == AeLoop(records, Len(records)).ae_events
        lean == {k \in DOMAIN ae_events :
                    RatLess(Rat(140, 1), AeEventAvg(ae_events[k]))}
        rich == {k \in DOMAIN ae_events :
                    /\ k \notin lean
                    /\ RatLess(AeEventAvg(ae_events[k]), Rat(115, 1))}
    IN  [total_ae_events |-> Len(ae_events),
         lean_ae_events |-> Cardinality(lean),
         rich_ae_events |-> Cardinality(rich),
         ae_events |-> SubSeq(ae_events, 1, Min({20, Len(ae_events)}))]

\* A variant of analyze_idle whose lower rpm bound is inclusive.
analyze_idle_inclusive(records) ==
    LET idle_records ==
            SelectSeq(records, LAMBDA r :
                /\ AtLeast(get(r, "rpm", 0), 4000)
                /\ Less(get(r, "rpm", 0), 12000)
                /\ Less(get(r, "tps_pct", 0), 50))
        rpms == get_channel_data(idle_records, "rpm")
        afrs == [k \in DOMAIN idle_records |-> get(idle_records[k], "afr", 147)]
        maps == get_channel_data(idle_records, "map_kpa")
    IN  IF Len(idle_records) = 0 THEN [has_idle_data |-> FALSE]
        ELSE [has_idle_data |-> TRUE,
              avg_rpm |-> Mean(rpms),
              rpm_variance |-> Max(Range(rpms)) - Min(Range(rpms)),
              avg_afr |-> Mean(afrs),
              afr_variance |-> Max(Range(afrs)) - Min(Range(afrs)),
              avg_map |-> Mean(maps),
              map_variance |-> Max(Range(maps)) - Min(Range(maps)),
              idle_samples |-> Len(idle_records)]

analyze_idle(records) ==
    LET idle_records ==
            SelectSeq(records, LAMBDA r :
                /\ Greater(get(r, "rpm", 0), 4000)
                /\ Less(get(r, "rpm", 0), 12000)
                /\ Less(get(r, "tps_pct", 0), 50))
        rpms == get_channel_data(idle_records, "rpm")
        afrs == [k \in DOMAIN idle_records |-> get(idle_records[k], "afr", 147)]
        maps == get_channel_data(idle_records, "map_kpa")
    IN  IF Len(idle_records) = 0 THEN [has_idle_data |-> FALSE]
        ELSE [has_idle_data |-> TRUE,
              avg_rpm |-> Mean(rpms),
              rpm_variance |-> Max(Range(rpms)) - Min(Range(rpms)),
              avg_afr |-> Mean(afrs),
              afr_variance |-> Max(Range(afrs)) - Min(Range(afrs)),
              avg_map |-> Mean(maps),
              map_variance |-> Max(Range(maps)) - Min(Range(maps)),
              idle_samples |-> Len(idle_records)]

\* (int(rpm) // 500) * 500 for rpm counted in 1/10; int(rpm) raises
\* OverflowError for an infinite rpm, which ends analyze_timing.
rpm_band(rpm) == ((rpm \div 10) \div 500) * 500

analyze_timing(records) ==
    LET fast == SelectSeq(records, LAMBDA r : Greater(get(r, "rpm", 0), 5000))
        timing_data == get_channel_data(fast, "ign_timing_deg")
        rpm_data == get_channel_data(fast, "rpm")
        bands == {rpm_band(rpm_data[k]) : k \in DOMAIN rpm_data}
        timings(band) ==
            LET idx == SelectSeq([k \in DOMAIN rpm_data |-> k],
                                 LAMBDA k : rpm_band(rpm_data[k]) = band)
            IN  [j \in DOMAIN idx |-> timing_data[idx[j]]]
    IN  IF Len(timing_data) = 0 THEN [has_timing_data |-> FALSE]
        ELSE IF INF \in Range(rpm_data) THEN [raised |-> "OverflowError"]
        ELSE [has_timing_data |-> TRUE,
              overall_avg |-> Mean(timing_data),
              overall_max |-> Max(Range(timing_data)),
              overall_min |-> Min(Range(timing_data)),
              by_rpm_band |->
                [band \in bands |->
                    [avg |-> Mean(timings(band)),
                     min |-> Min(Range(timings(band))),
                     max |-> Max(Range(timings(band)))]]]

get_full_analysis(dl) ==
    IF "raised" \in DOMAIN analyze_timing(dl.records)
    THEN analyze_timing(dl.records)
    ELSE
    [file |-> dl.filename,
     duration_sec |-> duration_seconds(dl),
     sample_rate |-> dl.sample_rate_hz,
     total_records |-> Len(dl.records),
     max_rpm |-> max_channel(dl.records, "rpm"),
     max_tps |-> max_channel(dl.records, "tps_pct"),
     wot_analysis |-> analyze_wot_afr(dl.records),
     ae_analysis |-> analyze_acceleration_enrichment(dl.records),
     idle_analysis |-> analyze_idle(dl.records),
     timing_analysis |-> analyze_timing(dl.records),
     metadata |-> dl.metadata]

-----------------------------------------------------------------------------
(* generate_sample_datalog.  A reading is counted in 1/10 as in the        *)
(* statistics engine, and progress is the exact quotient i/300 or i/60.    *)
(* A draw of the random generator is one of 0 (the low end of the range),  *)
(* 1 (its middle) and 2 (the high end).  Only the channels an analysis     *)
(* reads are kept: of these rpm, tps_pct and afr take their jitter from    *)
(* the draws, the other channels take the middle of their range.           *)

\* random.uniform(a, b) for a draw u.
Uniform(a, b, u) == a + ((b - a) * u) \div 2

\* Staging record i of 90.
StagingRecord(i, u) ==
    [rpm |-> 8500 + Uniform(-300, 300, u.rpm),
     map_kpa |-> 420,
     tps_pct |-> 25 + Uniform(-5, 5, u.tps),
     afr |-> 138 + Uniform(-3, 3, u.afr),
     target_afr |-> 138,
     ign_timing_deg |-> 180,
     ae_active |-> 0,
     tps_roc |-> 0]

\* 0.25 <= progress <= 0.27 or 0.55 <= progress <= 0.57, progress = i/300
InShift(i) ==
    \/ 25 * 300 <= 100 * i /\ 100 * i <= 27 * 300
    \/ 55 * 300 <= 100 * i /\ 100 * i <= 57 * 300

\* The rpm ramp of the pull before clamping and jitter.
RampRpm(i) ==
    IF 100 * i < 2 * 300 THEN 45000 + (i * 500000) \div 300
    ELSE IF 100 * i < 25 * 300 THEN 45000 + ((i - 6) * 120000) \div 300
    ELSE IF 100 * i < 27 * 300 THEN 68000 - ((i - 75) * 150000) \div 300
    ELSE IF 100 * i < 55 * 300 THEN 43000 + ((i - 81) * 90000) \div 300
    ELSE IF 100 * i < 57 * 300 THEN 65000 - ((i - 165) * 120000) \div 300
    ELSE IF 100 * i < 85 * 300 THEN 41000 + ((i - 171) * 85000) \div 300
    ELSE IF 100 * i < 87 * 300 THEN 63000 - ((i - 255) * 50000) \div 300
    ELSE 52000 + ((i - 261) * 60000) \div 300

\* A variant of the throttle of the pull that stays open during a shift.
PullTps_open(i, u) == Min({1000, 950 + Uniform(-30, 50, u)})

\* tps of record i of the pull: 95 + jitter, 30 + jitter during a shift,
\* and at most 100.
PullTps(i, u) ==
    Min({1000, IF InShift(i) THEN 300 + Uniform(-100, 100, u)
               ELSE 950 + Uniform(-30, 50, u)})

\* afr of record i of the pull.
PullAfr(i, u) ==
    IF InShift(i) THEN 145 + Uniform(-5, 15, u) ELSE 126 + Uniform(-4, 6, u)

\* Launch and WOT pull record i of 300.
PullRecord(i, u) ==
    LET rpm == Max({35000, Min({70000, RampRpm(i)})}) + Uniform(-500, 500, u.rpm)
    IN  [rpm |-> rpm,
         map_kpa |-> 960,
         tps_pct |-> PullTps(i, u.tps),
         afr |-> PullAfr(i, u.afr),
         target_afr |-> 128,
         ign_timing_deg |-> 320 - rpm \div 1000,
         ae_active |-> IF i < 5 THEN 1 ELSE 0,
         tps_roc |-> IF i < 5 THEN 25 ELSE 0]

\* Coast record i of 60.
CoastRecord(i, u) ==
    [rpm |-> 60000 - (i * 40000) \div 60 + Uniform(-1000, 1000, u.rpm),
     map_kpa |-> 950 - (i * 500) \div 60,
     tps_pct |-> 50 + Uniform(-20, 20, u.tps),
     afr |-> 155 + (i * 20) \div 60 + Uniform(-10, 10, u.afr),
     target_afr |-> 147,
     ign_timing_deg |-> 200,
     ae_active |-> 0,
     tps_roc |-> 0 - 25]

\* generate_sample_datalog(scenario); draws[n] holds the draws for record n
\* (from 1).  Only drag_pass generates records.
generate_sample_datalog(scenario, draws) ==
    [records |->
        IF scenario = E("drag_pass")
        THEN [n \in 1..450 |->
                IF n <= 90 THEN StagingRecord(n - 1, draws[n])
                ELSE IF n <= 390 THEN PullRecord(n - 91, draws[n])
                ELSE CoastRecord(n - 391, draws[n])]
        ELSE <<>>,
     channels |-> SNIPER_CHANNELS,
     sample_rate_hz |-> 30,
     metadata |-> [scenario |-> scenario, generated |-> TRUE,
                   description |-> E("Sample ") \o scenario
                                       \o E(" datalog for demonstration")],
     filename |-> E("sample_") \o scenario \o E(".dl"),
     parse_errors |-> <<>>]

-----------------------------------------------------------------------------
(* 32-bit floats read from a buffer *)

\* struct.unpack_from('<f', data, offset)[0] raises struct.error unless four
\* bytes lie at offset.
CanUnpack(data, offset) == offset + 4 <= Len(data)

\* struct.unpack_from('<f', data, offset)[0]: the little-endian word at
\* offset, as sign bit and low 31 bits.
unpack_f(data, offset) ==
    [neg |-> data[offset + 4] >= 128,
     mag |-> (data[offset + 4] % 128) * 16777216 + data[offset + 3] * 65536
             + data[offset + 2] * 256 + data[offset + 1]]

\* The low 31 bits of the float constants the parsers compare with.  For
\* non-negative floats the order of the values is the order of the words;
\* every NaN has low bits above those of infinity.
F32_INF == 2139095040
F32_8000 == 1174011904
F32_10 == 1092616192
F32_250 == 1132068864
F32_10000 == 1176256512
F32_1000 == 1148846080

\* v != v
IsNaN(v) == v.mag > F32_INF

\* 0 <= v <= 8000
rpm_like(v) == v.mag = 0 \/ (~v.neg /\ v.mag <= F32_8000)

\* 10 <= v <= 250
map_like(v) == ~v.neg /\ F32_10 <= v.mag /\ v.mag <= F32_250

\* -1000 < val < 10000 and val == val
raw_like(v) ==
    /\ ~IsNaN(v)
    /\ IF v.neg THEN v.mag < F32_1000 ELSE v.mag < F32_10000

-----------------------------------------------------------------------------
(* _parse_binary_datalog *)

\* The first start offset tried, and the bound of the offsets tried.
SCAN_FROM == 64
SCAN_TO == 512
\* The bound of the header scan, and the rows a candidate is tested on.
HEADER_SCAN == 256
TEST_ROWS == 10

\* A variant of the channel counts that starts with rows of 8 floats.
CHANNEL_COUNTS_eight == <<8, 12, 16, 20, 24, 28, 32>>

\* The channel counts tried, in order.
CHANNEL_COUNTS == <<12, 16, 20, 24, 28, 32>>

\* One test row: has_rpm_like and has_map_like over row_vals[:4], row_vals[:8].
RowPlausible(data, row_offset, num_channels) ==
    LET row_vals(ch) == unpack_f(data, row_offset + ch * 4)
    IN  /\ \E ch \in 0..(Min({4, num_channels}) - 1) : rpm_like(row_vals(ch))
        /\ \E ch \in 0..(Min({8, num_channels}) - 1) : map_like(row_vals(ch))

\* There is room for the test rows at start_offset.
HasRoom(data, offset, num_channels) ==
    offset + num_channels * 4 * TEST_ROWS <= Len(data)

\* A variant of the test that is content with five plausible rows.
CandidateValid_five(data, offset, num_channels) ==
    /\ HasRoom(data, offset, num_channels)
    /\ \A row_idx \in 0..4 :
          RowPlausible(data, offset + row_idx * num_channels * 4, num_channels)

\* rows_valid and len(test_rows) >= 5 after the test loop.
CandidateValid(data, offset, num_channels) ==
    /\ HasRoom(data, offset, num_channels)
    /\ \A row_idx \in 0..(TEST_ROWS - 1) :
          RowPlausible(data, offset + row_idx * num_channels * 4, num_channels)

\* The rows the test loop reads for a candidate with room: up to and with
\* the first implausible one.
RowsRead(data, offset, num_channels) ==
    LET bad == {row_idx \in 0..(TEST_ROWS - 1) :
                  ~RowPlausible(data, offset + row_idx * num_channels * 4,
                                num_channels)}
    IN  IF bad = {} THEN TEST_ROWS ELSE Min(bad) + 1

\* A variant of the decoding that stops after the ten rows tested.
DecodeRows_tested(data, offset, num_channels) ==
    LET channel_names ==
            SubSeq(SNIPER_CHANNELS, 1, Min({num_channels, Len(SNIPER_CHANNELS)}))
        row_size == num_channels * 4
        ch_idx(name) == (CHOOSE k \in DOMAIN channel_names :
                            channel_names[k] = name) - 1
    IN  [channels |-> channel_names,
         records |-> [row \in 1..TEST_ROWS |->
            [name \in Range(channel_names) |->
                unpack_f(data, offset + (row - 1) * row_size + ch_idx(name) * 4)]]]

\* The decoding after acceptance: channel names from the catalog, then every
\* full row from start_offset on.
DecodeRows(data, offset, num_channels) ==
    LET channel_names ==
            SubSeq(SNIPER_CHANNELS, 1, Min({num_channels, Len(SNIPER_CHANNELS)}))
        row_size == num_channels * 4
        total_rows == (Len(data) - offset) \div row_size
        ch_idx(name) == (CHOOSE k \in DOMAIN channel_names :
                            channel_names[k] = name) - 1
    IN  [channels |-> channel_names,
         records |-> [row \in 1..total_rows |->
            [name \in Range(channel_names) |->
                unpack_f(data, offset + (row - 1) * row_size + ch_idx(name) * 4)]]]

\* A variant of the length guard that lets every buffer through.
TooShort_never(data) == Len(data) < 0

\* if len(data) < 64: return datalog
TooShort(data) == Len(data) < SCAN_FROM

\* A variant of the inner loop that goes on after a validating count and
\* decodes with the last one that validates.
RECURSIVE TryChannelCounts_last(_, _, _)
TryChannelCounts_last(data, offset, k) ==
    IF k > Len(CHANNEL_COUNTS) THEN [num_channels |-> 0, calls |-> 0]
    ELSE LET n == CHANNEL_COUNTS[k]
             rest == TryChannelCounts_last(data, offset, k + 1)
             tested == RowsRead(data, offset, n) * n
             decoded == DecodeRows(data, offset, n)
         IN  IF ~HasRoom(data, offset, n) THEN rest
             ELSE IF /\ CandidateValid(data, offset, n)
                     /\ Len(decoded.records) > 0
                     /\ rest.num_channels = 0
             THEN [num_channels |-> n,
                   calls |-> rest.calls + tested
                              + Len(decoded.records) * Len(decoded.channels)]
             ELSE [rest EXCEPT !.calls = @ + tested]

\* The inner loop at one start offset, from the k-th channel count on: the
\* first count that validates and decodes to records (0: none), with the
\* unpack_from calls made.
RECURSIVE TryChannelCounts(_, _, _)
TryChannelCounts(data, offset, k) ==
    IF k > Len(CHANNEL_COUNTS) THEN [num_channels |-> 0, calls |-> 0]
    ELSE LET n == CHANNEL_COUNTS[k]
             rest == TryChannelCounts(data, offset, k + 1)
             tested == RowsRead(data, offset, n) * n
             decoded == DecodeRows(data, offset, n)
         IN  IF ~HasRoom(data, offset, n) THEN rest
             ELSE IF CandidateValid(data, offset, n) /\ Len(decoded.records) > 0
             THEN [num_channels |-> n,
                   calls |-> tested + Len(decoded.records) * Len(decoded.channels)]
             ELSE [rest EXCEPT !.calls = @ + tested]

-----------------------------------------------------------------------------
(* _extract_from_raw *)

\* range(0, len(data) - 4, 4)
RawOffsets(data) == {i \in 0..(Len(data) - 5) : i % 4 = 0}

extract_from_raw(data, path) ==
    LET new == [SniperDatalog(basename(path)) EXCEPT !.channels = SNIPER_CHANNELS]
        floats_found == {i \in RawOffsets(data) :
                            CanUnpack(data, i) /\ raw_like(unpack_f(data, i))}
    IN  IF floats_found # {}
        THEN [new EXCEPT !.metadata =
                [raw_floats_found |-> Cardinality(floats_found),
                 file_size_bytes |-> Len(data)]]
        ELSE new

-----------------------------------------------------------------------------
(* parse_dlz_file, step by step *)

\* data.decode('utf-8', errors='replace') for buffers whose bytes >= 128
\* never form a valid multi-byte sequence (true of every buffer of Buffers):
\* each such byte becomes one U+FFFD.
Utf8Decode(data) ==
    [i \in DOMAIN data |-> IF data[i] < 128 THEN data[i] ELSE REPLACEMENT]

\* A variant of the delimiter test that takes every text for delimited.
LooksDelimited_always(text_data) == Len(text_data) >= 0

\* ',' in text_data[:500] or '\t' in text_data[:500]
LooksDelimited(text_data) ==
    \E i \in 1..Min({500, Len(text_data)}) : text_data[i] \in {COMMA, TAB}

\* filepath.lower().endswith('.dlz')
IsDlz(path) == EndsWith(Lower(path), E(".dlz"))

\* A variant of the decompression block that tries raw deflate first.
Decompressed_deflate_first(path, f) ==
    IF IsDlz(path)
    THEN IF f.deflate.ok THEN f.deflate.bytes
         ELSE IF f.zlib.ok THEN f.zlib.bytes
         ELSE f.raw
    ELSE f.raw

\* The calls of zlib.decompress the decompression block makes, in order.
DecompressAttempts(path, f) ==
    IF IsDlz(path)
    THEN IF f.zlib.ok THEN <<"zlib">> ELSE <<"zlib", "deflate">>
    ELSE <<>>

\* The decompression block: zlib, then raw deflate, then the bytes as they
\* are.  f.zlib and f.deflate are what zlib.decompress(raw) and
\* zlib.decompress(raw, -15) do on the file's bytes.
Decompressed(path, f) ==
    IF IsDlz(path)
    THEN IF f.zlib.ok THEN f.zlib.bytes
         ELSE IF f.deflate.ok THEN f.deflate.bytes
         ELSE f.raw
    ELSE f.raw

\* The diagnostic appended when neither parser found records.
UnparsedNote(size) ==
    [msg |-> "Could not fully parse proprietary DLZ format. For best results, export from Holley software as CSV.",
     file_size |-> size]

\* The diagnostic of the outer handler.
ReadErrorNote == [msg |-> "Error reading file"]

\* A variant of the outer handler that lets the exception leave the function.
OnException_reraise(dl) == [datalog |-> dl, raised |-> TRUE]

\* except Exception as e: datalog.parse_errors.append(...), and the function
\* goes on to return datalog.
OnException(dl) ==
    [datalog |-> [dl EXCEPT !.parse_errors = Append(@, ReadErrorNote)],
     raised |-> FALSE]

scan_vars == <<start_offset, layout, unpack_calls>>

\* open(filepath, 'rb') and f.read() succeed.
ReadFile ==
    /\ pc = "open"
    /\ file.readable
    /\ raw_data' = file.raw
    /\ stages' = Append(stages, "read")
    /\ pc' = "decompress"
    /\ UNCHANGED <<filepath, file, decompressed, datalog, raised, scan_vars>>
    /\ UNCHANGED <<stats_vars, csv_vars>>

\* open or read raises: the outer handler runs and datalog is returned.
ReadFails ==
    /\ pc = "open"
    /\ ~file.readable
    /\ datalog' = OnException(datalog).datalog
    /\ raised' = OnException(datalog).raised
    /\ stages' = Append(stages, "read")
    /\ pc' = "done"
    /\ UNCHANGED <<filepath, file, raw_data, decompressed, scan_vars>>
    /\ UNCHANGED <<stats_vars, csv_vars>>

Decompress ==
    /\ pc = "decompress"
    /\ decompressed' = Decompressed(filepath, file)
    /\ stages' = Append(stages \o DecompressAttempts(filepath, file),
                        "decompress")
    /\ pc' = "text"
    /\ UNCHANGED <<filepath, file, raw_data, datalog, raised, scan_vars>>
    /\ UNCHANGED <<stats_vars, csv_vars>>

\* The text attempt: only a delimiter among the first 500 characters starts
\* the text parser, and only records end the call here.
TryText ==
    /\ pc = "text"
    /\ LET text_data == Utf8Decode(decompressed)
           dl == parse_text_datalog(text_data, filepath)
       IN  IF LooksDelimited(text_data)
           THEN /\ datalog' = dl
                /\ stages' = Append(stages, "text")
                /\ pc' = IF Len(dl.records) > 0 THEN "done" ELSE "binary"
           ELSE /\ pc' = "binary"
                /\ UNCHANGED <<datalog, stages>>
    /\ UNCHANGED <<filepath, file, raw_data, decompressed, raised, scan_vars>>
    /\ UNCHANGED <<stats_vars, csv_vars>>

\* _parse_binary_datalog up to its search loop: the length guard, then the
\* header scan, which unpacks at every offset below min(len, 256).
BinaryBegin ==
    /\ pc = "binary"
    /\ datalog' = SniperDatalog(basename(filepath))
    /\ stages' = Append(stages, "binary")
    /\ layout' = <<>>
    /\ IF TooShort(decompressed)
       THEN /\ pc' = "binary_done"
            /\ UNCHANGED <<start_offset, unpack_calls>>
       ELSE /\ pc' = "binary_scan"
            /\ start_offset' = SCAN_FROM
            /\ unpack_calls' = Min({Len(decompressed), HEADER_SCAN})
    /\ UNCHANGED <<filepath, file, raw_data, decompressed, raised>>
    /\ UNCHANGED <<stats_vars, csv_vars>>

\* One pass of the outer loop: every channel count at start_offset; the
\* first candidate that validates is decoded and returned.
BinaryTryOffset ==
    /\ pc = "binary_scan"
    /\ start_offset < Min({Len(decompressed), SCAN_TO})
    /\ LET try == TryChannelCounts(decompressed, start_offset, 1)
           decoded == DecodeRows(decompressed, start_offset, try.num_channels)
       IN  /\ unpack_calls' = unpack_calls + try.calls
           /\ IF try.num_channels # 0
              THEN /\ datalog' = [datalog EXCEPT !.channels = decoded.channels,
                                                 !.records = decoded.records]
                   /\ layout' = <<start_offset, try.num_channels>>
                   /\ pc' = "binary_done"
                   /\ UNCHANGED start_offset
              ELSE /\ start_offset' = start_offset + 1
                   /\ UNCHANGED <<datalog, layout, pc>>
    /\ UNCHANGED <<filepath, file, raw_data, decompressed, raised, stages>>
    /\ UNCHANGED <<stats_vars, csv_vars>>

\* The outer loop ends without a candidate: the empty datalog is returned.
BinaryExhausted ==
    /\ pc = "binary_scan"
    /\ start_offset >= Min({Len(decompressed), SCAN_TO})
    /\ pc' = "binary_done"
    /\ UNCHANGED <<filepath, file, raw_data, decompressed, datalog, raised,
                   stages, scan_vars>>
    /\ UNCHANGED <<stats_vars, csv_vars>>

\* if datalog.records: return datalog
AfterBinary ==
    /\ pc = "binary_done"
    /\ pc' = IF Len(datalog.records) > 0 THEN "done" ELSE "note"
    /\ UNCHANGED <<filepath, file, raw_data, decompressed, datalog, raised,
                   stages, scan_vars>>
    /\ UNCHANGED <<stats_vars, csv_vars>>

\* datalog.parse_errors.append(...) on the binary parser's datalog.
AppendNote ==
    /\ pc = "note"
    /\ datalog' = [datalog EXCEPT
                     !.parse_errors = Append(@, UnparsedNote(Len(raw_data)))]
    /\ pc' = "raw"
    /\ UNCHANGED <<filepath, file, raw_data, decompressed, raised, stages,
                   scan_vars>>
    /\ UNCHANGED <<stats_vars, csv_vars>>

\* datalog = _extract_from_raw(decompressed, filepath), then return datalog.
RawExtract ==
    /\ pc = "raw"
    /\ datalog' = extract_from_raw(decompressed, filepath)
    /\ stages' = Append(stages, "raw")
    /\ pc' = "done"
    /\ UNCHANGED <<filepath, file, raw_data, decompressed, raised, scan_vars>>
    /\ UNCHANGED <<stats_vars, csv_vars>>

-----------------------------------------------------------------------------
(* The files parse_dlz_file is run on *)

\* Little-endian bytes of 100.0 (plausible as RPM and as MAP), 9000.0
\* (neither, yet inside the raw range) and a NaN.
F100 == <<0, 0, 200, 66>>
F9000 == <<0, 160, 12, 70>>
FNAN == <<0, 0, 192, 127>>

\* Rows beyond the ten test rows, trailing bytes after the last row, and
\* bytes of header beyond 64 that the buffers of the family carry.
ExtraRows == 1
TailBytes == 3
MaxShift == 2

\* A log image: hdr header bytes (zero, the fifth one is mark), then rows of
\* n floats whose first float is 100.0 (fill in row bad) and whose other
\* floats are fill, then tail bytes of value 1.
BinaryBuffer(hdr, mark, n, rows, bad, tail, fill) ==
    [i \in 1..(hdr + rows * n * 4 + tail) |->
        LET o == i - 1
            k == (o - hdr) \div 4
        IN  IF o < hdr THEN (IF o = 4 THEN mark ELSE 0)
            ELSE IF o >= hdr + rows * n * 4 THEN 1
            ELSE IF k % n = 0 /\ k \div n # bad THEN F100[((o - hdr) % 4) + 1]
            ELSE fill[((o - hdr) % 4) + 1]]

\* len bytes of 100.0 after 100.0, from offset 0 on.
PlausibleBuffer(len) == [i \in 1..len |-> F100[((i - 1) % 4) + 1]]

\* Images whose first validating candidate is (64 + shift, n).
MatchBuffers ==
    {BinaryBuffer(SCAN_FROM + shift, 0, n, TEST_ROWS + extra, -1, tail, F9000) :
        shift \in 0..MaxShift, n \in Range(CHANNEL_COUNTS),
        extra \in 0..ExtraRows, tail \in {0, TailBytes}}

\* Images no candidate validates on: an implausible row among the first ten
\* of every candidate, or one row too few.
NoMatchBuffers ==
    {BinaryBuffer(SCAN_FROM, 0, 12, TEST_ROWS + ExtraRows - 1, TEST_ROWS - 1, 0, F9000),
     BinaryBuffer(SCAN_FROM, 0, 16, TEST_ROWS + ExtraRows, 3, 0, F9000),
     BinaryBuffer(SCAN_FROM, 0, 12, TEST_ROWS - 1, -1, TailBytes, F9000)}

\* Images with NaN filling, and images with a comma in the header.
OddBuffers ==
    {BinaryBuffer(SCAN_FROM, 0, 12, TEST_ROWS + ExtraRows, -1, 0, FNAN),
     BinaryBuffer(SCAN_FROM, COMMA, 16, TEST_ROWS + ExtraRows, -1, 0, FNAN),
     BinaryBuffer(SCAN_FROM, COMMA, 12, TEST_ROWS, 2, 0, F9000)}

\* Buffers of 100.0 around the limits 64 and 544, and one with room for ten
\* rows of 16 channels.
ShortBuffers ==
    {PlausibleBuffer(len) :
        len \in {0, 1, 3, 4, 5, 8, 9, 63, 64, 65, 100, 543, 544, 545, 704}}

\* Delimited text files.
TextBuffers ==
    {E("rpm,tps\n1000,2.5\n2000,90\n"), E("RPM\tTPS\r\n1000\t2.5\r\n"),
     E("a,b\n1\n"), E("a,b\n"), E("a,b"), E(","), E("time\n1\n2\t3\n4"),
     E("rpm tps\n1 2\n"), E("x,y\n1,2,3\n4,5\n"), E("x,y\n,\n")}

\* Delimited text behind 499 and behind 500 other characters.
LateDelimiterBuffers ==
    {[i \in 1..n |-> 120] \o E("a,b\n1,2\n") : n \in {499, 500}}

Buffers ==
    MatchBuffers \cup NoMatchBuffers \cup OddBuffers \cup ShortBuffers
        \cup TextBuffers \cup LateDelimiterBuffers

\* zlib.decompress raises zlib.error / returns bytes.
ZFail == [ok |-> FALSE]
ZOk(bytes) == [ok |-> TRUE, bytes |-> bytes]

\* What compressed files inflate to.
Payloads ==
    {E("rpm,tps\n1000,2.5\n"), PlausibleBuffer(8),
     BinaryBuffer(SCAN_FROM, 0, 12, TEST_ROWS, -1, 0, F9000)}

\* The bytes of a compressed file (only their length is looked at).
CompressedBytes == <<120, 156, 75, 44, 1, 0>>

Paths == {E("logs/run.dl"), E("logs/RUN.Dlz"), E("run.csv")}

\* The (path, file) pairs: files that cannot be read, files read as they
\* are, .dlz files that inflate at the first or at the second attempt, and
\* one that either attempt would inflate, each to other bytes.
Inputs ==
    {<<p, [readable |-> FALSE, raw |-> <<>>, zlib |-> ZFail, deflate |-> ZFail]>> :
        p \in Paths}
    \cup {<<E("logs/run.dl"), [readable |-> TRUE, raw |-> b, zlib |-> ZFail,
                               deflate |-> ZFail]>> : b \in Buffers}
    \cup {<<p, [readable |-> TRUE, raw |-> b, zlib |-> ZFail, deflate |-> ZFail]>> :
        p \in {E("logs/RUN.Dlz"), E("run.csv")},
        b \in TextBuffers \cup {PlausibleBuffer(5), PlausibleBuffer(544)}}
    \cup {<<p, [readable |-> TRUE, raw |-> CompressedBytes, zlib |-> ZOk(b),
                deflate |-> ZFail]>> :
        p \in {E("logs/run.dl"), E("logs/RUN.Dlz")}, b \in Payloads}
    \cup {<<E("logs/RUN.Dlz"), [readable |-> TRUE, raw |-> CompressedBytes,
                                zlib |-> ZFail, deflate |-> ZOk(b)]>> :
        b \in Payloads}
    \cup {<<E("logs/RUN.Dlz"), [readable |-> TRUE, raw |-> CompressedBytes,
                                zlib |-> ZOk(E("rpm,tps\n1000,2.5\n")),
                                deflate |-> ZOk(PlausibleBuffer(8))]>>}

-----------------------------------------------------------------------------
(* Subsystems at rest *)

ParseIdle ==
    /\ pc = "idle" /\ filepath = <<>> /\ file = NoFile /\ raw_data = <<>>
    /\ decompressed = <<>> /\ datalog = SniperDatalog(<<>>) /\ raised = FALSE
    /\ stages = <<>> /\ start_offset = 0 /\ layout = <<>> /\ unpack_calls = 0

StatsIdle == log = SniperDatalog(<<>>) /\ op = "idle" /\ out = <<>>

CsvIdle ==
    /\ csv_pc = "idle" /\ text = <<>> /\ parsed = SniperDatalog(<<>>)
    /\ csv_file = NoFile /\ reparsed = SniperDatalog(<<>>)

-----------------------------------------------------------------------------
(* Specification of one call of parse_dlz_file *)

\* The call is entered: datalog = SniperDatalog(), filename set, locals unset.
Init ==
    /\ \E input \in Inputs :
        /\ filepath = input[1]
        /\ file = input[2]
        /\ datalog = SniperDatalog(basename(input[1]))
    /\ pc = "open"
    /\ raw_data = <<>> /\ decompressed = <<>> /\ raised = FALSE
    /\ stages = <<>> /\ start_offset = 0 /\ layout = <<>> /\ unpack_calls = 0
    /\ StatsIdle /\ CsvIdle

Next ==
    \/ ReadFile \/ ReadFails \/ Decompress \/ TryText
    \/ BinaryBegin \/ BinaryTryOffset \/ BinaryExhausted \/ AfterBinary
    \/ AppendNote \/ RawExtract

\* The call runs on its own thread of control until it returns.
Spec == Init /\ [][Next]_vars

-----------------------------------------------------------------------------
(* Specification of the statistics engine on one datalog *)

\* The longest record sequence analysed.
MaxRecords == 9

\* Record i (from 0) of a log: its own afr reading, and the throttle
\* reading tps unless tps is 0, which stands for a record without tps_pct.
StatsRecord(i, tps) ==
    IF tps = 0 THEN [afr |-> 110 + 10 * i]
    ELSE [afr |-> 110 + 10 * i, tps_pct |-> tps]

\* The longest record sequence with NaN throttle readings.
MaxNanRecords == 5

\* Logs of up to MaxRecords records; a log either has tps_pct in all its
\* records, or its records read 90.0 or lack the channel.  Logs of up to
\* MaxNanRecords records may read NaN as well.
StatsLogs ==
    UNION {{[i \in 1..len |-> StatsRecord(i - 1, t[i])] :
                t \in [1..len -> {0, 900}] \cup [1..len -> {850, 900}]} :
           len \in 0..MaxRecords}
    \cup UNION {{[i \in 1..len |-> StatsRecord(i - 1, t[i])] :
                    t \in [1..len -> {0, 900, NAN}]} :
                len \in 1..MaxNanRecords}

\* The thresholds get_wot_runs is called with, and the channels looked up.
Thresholds == {850, 900}
LookupChannels == {"tps_pct", "afr", "rpm"}

StatsInit ==
    /\ \E records \in StatsLogs :
          log = [SniperDatalog(<<>>) EXCEPT !.records = records,
                                            !.channels = <<"afr", "tps_pct">>]
    /\ op = "none" /\ out = <<>>
    /\ ParseIdle /\ CsvIdle

GetWotRuns ==
    /\ op = "none"
    /\ \E tps_threshold \in Thresholds :
          out' = [tps_threshold |-> tps_threshold,
                  runs |-> get_wot_runs(log.records, tps_threshold)]
    /\ op' = "get_wot_runs"
    /\ UNCHANGED <<log, parse_vars, csv_vars>>

AnalyzeWotAfr ==
    /\ op = "none"
    /\ out' = analyze_wot_afr(log.records)
    /\ op' = "analyze_wot_afr"
    /\ UNCHANGED <<log, parse_vars, csv_vars>>

GetFullAnalysis ==
    /\ op = "none"
    /\ out' = get_full_analysis(log)
    /\ op' = "get_full_analysis"
    /\ UNCHANGED <<log, parse_vars, csv_vars>>

\* record.get(channel) on one record of the log.
RecordGet ==
    /\ op = "none"
    /\ \E i \in DOMAIN log.records, channel \in LookupChannels :
          out' = [index |-> i, channel |-> channel,
                  result |-> record_get(log.records[i], channel)]
    /\ op' = "record.get"
    /\ UNCHANGED <<log, parse_vars, csv_vars>>

\* record.<channel> on one record of the log.
RecordGetAttr ==
    /\ op = "none"
    /\ \E i \in DOMAIN log.records, channel \in LookupChannels :
          out' = [index |-> i, channel |-> channel,
                  result |-> record_getattr(log.records[i], channel)]
    /\ op' = "record.getattr"
    /\ UNCHANGED <<log, parse_vars, csv_vars>>

GetChannelData ==
    /\ op = "none"
    /\ \E channel \in LookupChannels :
          out' = [channel |-> channel,
                  result |-> get_channel_data(log.records, channel)]
    /\ op' = "get_channel_data"
    /\ UNCHANGED <<log, parse_vars, csv_vars>>

StatsNext ==
    \/ GetWotRuns \/ AnalyzeWotAfr \/ GetFullAnalysis
    \/ RecordGet \/ RecordGetAttr \/ GetChannelData

SpecStats == StatsInit /\ [][StatsNext]_vars

-----------------------------------------------------------------------------
(* Specification of the analyses called in any order on one datalog *)

\* The longest record sequence with acceleration-enrichment flags.
MaxAeRecords == 5

\* Record i (from 0) of a log with enrichment flags: afr reads base, and
\* bump more in every second record, tps_roc reads -0.5, 1.5, 0.5 in turn;
\* base 0 stands for a record with neither afr nor tps_roc.
AeRecord(i, flag, base, bump) ==
    IF base = 0 THEN [ae_active |-> flag]
    ELSE [ae_active |-> flag, afr |-> base + bump * (i % 2),
          tps_roc |-> 10 * ((2 * i) % 3) - 5]

AeBases == {0, 114, 115, 140, 141}

\* A log whose one event spans records 0..1 and ends at record 2, so that
\* its trace is cut after record 11: the record behind the cut reads 30.0.
LongAeRecords(base) ==
    [i \in 1..13 |->
        [ae_active |-> IF i <= 2 THEN 1 ELSE 0,
         afr |-> IF i <= 12 THEN base ELSE 300]]

\* A log of 22 events of one record each, all lean.
ManyAeRecords ==
    [i \in 1..44 |-> [ae_active |-> i % 2, afr |-> 141, tps_roc |-> i]]

\* A log of one event of two records, one of them with a NaN tps_roc.
NanAeRecords(first) ==
    <<[ae_active |-> 1, afr |-> 130, tps_roc |-> IF first THEN NAN ELSE 5],
      [ae_active |-> 1, afr |-> 130, tps_roc |-> IF first THEN 5 ELSE NAN],
      [ae_active |-> 0, afr |-> 130, tps_roc |-> 0]>>

AeLogs ==
    UNION {{[i \in 1..len |-> AeRecord(i - 1, t[i], base, bump)] :
                t \in [1..len -> {0, 1}], base \in AeBases, bump \in {0, 1}} :
           len \in 0..MaxAeRecords}
    \cup {LongAeRecords(base) : base \in {115, 140}} \cup {ManyAeRecords}
    \cup {NanAeRecords(first) : first \in BOOLEAN}

\* The longest record sequence with idle readings.
MaxIdleRecords == 2

\* A record reading rpm and tps (in 1/10); 0 stands for a record without
\* the channel.
IdleRecord(rpm, tps) ==
    [ch \in (IF rpm = 0 THEN {} ELSE {"rpm"})
             \cup (IF tps = 0 THEN {} ELSE {"tps_pct"}) |->
        IF ch = "rpm" THEN rpm ELSE tps]

IdleRecords ==
    {IdleRecord(rpm, tps) : rpm \in {0, 4000, 4010, 11990, 12000, NAN},
                            tps \in {0, 49, 50}}
    \cup {IdleRecord(4010, NAN)}

IdleLogs == UNION {[1..len -> IdleRecords] : len \in 0..MaxIdleRecords}

MaxTimingRecords == 2

\* A record with rpm and ign_timing_deg, 0 standing for a channel the
\* record does not hold.
TimingRecord(rpm, ign) ==
    [ch \in (IF rpm = 0 THEN {} ELSE {"rpm"})
             \cup (IF ign = 0 THEN {} ELSE {"ign_timing_deg"}) |->
        IF ch = "rpm" THEN rpm ELSE ign]

TimingRecords ==
    {TimingRecord(rpm, ign) : rpm \in {0, 5000, 5010, 9990, 10000, INF},
                              ign \in {0, 100, 350}}
    \cup {TimingRecord(NAN, 100)}

TimingLogs == UNION {[1..len -> TimingRecords] : len \in 0..MaxTimingRecords}

EngineLogs == AeLogs \cup IdleLogs \cup TimingLogs

EngineInit ==
    /\ \E records \in EngineLogs :
          log = [SniperDatalog(<<>>) EXCEPT !.records = records]
    /\ op = "none" /\ out = <<>>
    /\ ParseIdle /\ CsvIdle

CallAnalyzeWotAfr ==
    /\ out' = analyze_wot_afr(log.records)
    /\ op' = "analyze_wot_afr"
    /\ UNCHANGED <<log, parse_vars, csv_vars>>

CallAnalyzeAccelerationEnrichment ==
    /\ out' = analyze_acceleration_enrichment(log.records)
    /\ op' = "analyze_acceleration_enrichment"
    /\ UNCHANGED <<log, parse_vars, csv_vars>>

\* A variant of the idle analysis that keeps only the idle records in the
\* datalog it was called on.
CallAnalyzeIdle_consuming ==
    /\ out' = analyze_idle(log.records)
    /\ op' = "analyze_idle"
    /\ log' = [log EXCEPT !.records =
                    SelectSeq(@, LAMBDA r :
                        /\ Greater(get(r, "rpm", 0), 4000)
                        /\ Less(get(r, "rpm", 0), 12000)
                        /\ Less(get(r, "tps_pct", 0), 50))]
    /\ UNCHANGED <<parse_vars, csv_vars>>

CallAnalyzeIdle ==
    /\ out' = analyze_idle(log.records)
    /\ op' = "analyze_idle"
    /\ UNCHANGED <<log, parse_vars, csv_vars>>

CallAnalyzeTiming ==
    /\ out' = analyze_timing(log.records)
    /\ op' = "analyze_timing"
    /\ UNCHANGED <<log, parse_vars, csv_vars>>

CallGetFullAnalysis ==
    /\ out' = get_full_analysis(log)
    /\ op' = "get_full_analysis"
    /\ UNCHANGED <<log, parse_vars, csv_vars>>

EngineNext ==
    \/ CallAnalyzeWotAfr \/ CallAnalyzeAccelerationEnrichment
    \/ CallAnalyzeIdle \/ CallAnalyzeTiming \/ CallGetFullAnalysis

SpecEngine == EngineInit /\ [][EngineNext]_vars

-----------------------------------------------------------------------------
(* Specification of the sample generator followed by one analysis *)

\* How the draws of one channel run through the records: all low, all in
\* the middle, all high, or low and high in turn.
DrawPatterns == {"low", "mid", "high", "lowhigh", "highlow"}

Draw(pattern, n) ==
    CASE pattern = "low" -> 0
      [] pattern = "mid" -> 1
      [] pattern = "high" -> 2
      [] pattern = "lowhigh" -> 2 * (n % 2)
      [] pattern = "highlow" -> 2 - 2 * (n % 2)

\* The draws of a run of the generator, record by record.
DrawsOf(patterns) ==
    [n \in 1..450 |-> [ch \in {"rpm", "tps", "afr"} |-> Draw(patterns[ch], n)]]

Scenarios == {E("drag_pass"), E("street_cruise"), E("idle_tuning")}

SampleInit ==
    /\ log = SniperDatalog(<<>>) /\ op = "generate" /\ out = <<>>
    /\ ParseIdle /\ CsvIdle

GenerateSample ==
    /\ op = "generate"
    /\ \E scenario \in Scenarios,
          patterns \in [{"rpm", "tps", "afr"} -> DrawPatterns] :
          log' = generate_sample_datalog(scenario, DrawsOf(patterns))
    /\ op' = "none"
    /\ UNCHANGED <<out, parse_vars, csv_vars>>

SampleNext == GenerateSample \/ AnalyzeWotAfr \/ GetFullAnalysis

SpecSample == SampleInit /\ [][SampleNext]_vars

-----------------------------------------------------------------------------
(* Specification of the CSV export and re-import *)

\* The most data lines of a text.
MaxLines == 2

HeaderLines ==
    {E("rpm,tps"), E("RPM,TPS %"), E("\"Eng RPM\", afr "), E("a\tb"),
     E("x y,x_y,z"), E("a,a"), E("time"), E("n\"q,b"), E("p,q,r")}

DataLines ==
    {E("1,2"), E("1000,2.5"), E("-3.25,08,.5"), E("7"), E("1\t2"),
     E(" 1 ,\"2\""), E("1,x"), E("3,"), E("4\t")}

LineEnds == {<<NEWLINE>>, <<CR, NEWLINE>>}

\* A header line and up to MaxLines data lines, each ended the same way.
CsvTexts ==
    UNION {{Join(<<h>> \o rows, nl) \o nl :
                h \in HeaderLines, rows \in [1..n -> DataLines], nl \in LineEnds} :
           n \in 0..MaxLines}

CsvPath == E("out/log.csv")

CsvInit ==
    /\ text \in CsvTexts
    /\ csv_pc = "text"
    /\ parsed = SniperDatalog(<<>>) /\ csv_file = NoFile
    /\ reparsed = SniperDatalog(<<>>)
    /\ ParseIdle /\ StatsIdle

\* The text parser on the text.
CsvParse ==
    /\ csv_pc = "text"
    /\ parsed' = parse_text_datalog(text, CsvPath)
    /\ csv_pc' = "parsed"
    /\ UNCHANGED <<text, csv_file, reparsed, parse_vars, stats_vars>>

\* parsed.to_csv(CsvPath); nothing is at CsvPath before.
CsvExport ==
    /\ csv_pc = "parsed"
    /\ csv_file' = to_csv(parsed).written
    /\ csv_pc' = IF to_csv(parsed).raised THEN "raised" ELSE "written"
    /\ UNCHANGED <<text, parsed, reparsed, parse_vars, stats_vars>>

\* The text parser on what to_csv wrote.
CsvReparse ==
    /\ csv_pc = "written"
    /\ csv_file.exists
    /\ reparsed' = parse_text_datalog(csv_file.content, CsvPath)
    /\ csv_pc' = "reparsed"
    /\ UNCHANGED <<text, parsed, csv_file, parse_vars, stats_vars>>

CsvNext == CsvParse \/ CsvExport \/ CsvReparse

SpecCsv == CsvInit /\ [][CsvNext]_vars

-----------------------------------------------------------------------------
(* Properties of parse_dlz_file *)

SniperDatalogFields ==
    {"records", "channels", "sample_rate_hz", "metadata", "filename",
     "parse_errors"}

\* The positions of a call of parse_dlz_file, in the order it passes them.
PcOrder ==
    <<"open", "decompress", "text", "binary", "binary_scan", "binary_done",
      "note", "raw", "done">>

PcRank(p) == CHOOSE k \in DOMAIN PcOrder : PcOrder[k] = p

\* A bound on the steps a call has left: the positions ahead, and inside the
\* binary search the start offsets ahead.
StepsLeft ==
    (Len(PcOrder) - PcRank(pc)) * (SCAN_TO + 1)
        + (IF pc = "binary_scan" THEN SCAN_TO - start_offset ELSE 0)

\* C1: parse_dlz_file ends for every file content and file name, readable or
\* not: every step lowers the bound StepsLeft, which never goes below 0, and
\* the call is at one of its positions until it returns; no exception leaves
\* it, and what it returns is a SniperDatalog.
C1_ReturnsDatalog ==
    /\ [](~raised)
    /\ [](pc \in Range(PcOrder) /\ StepsLeft >= 0)
    /\ [](pc = "done" => DOMAIN datalog = SniperDatalogFields)
    /\ [][StepsLeft' < StepsLeft]_vars

\* A file that cannot be read still ends in a returned datalog.
C1_Witness ==
    /\ pc = "done" /\ ~file.readable /\ ~raised
    /\ Len(datalog.records) = 0 /\ Len(datalog.parse_errors) = 1

\* C2: a datalog without records returned for a readable file carries the
\* diagnostic note in parse_errors, so its parse_errors is not empty.
C2_NoteReported ==
    (pc = "done" /\ file.readable /\ Len(datalog.records) = 0) =>
        /\ Len(datalog.parse_errors) > 0
        /\ \E k \in DOMAIN datalog.parse_errors :
              datalog.parse_errors[k] = UnparsedNote(Len(raw_data))

\* The candidates of the search, and the search order on them.
CandidatePairs(data) ==
    {<<o, CHANNEL_COUNTS[k]>> :
        o \in SCAN_FROM..(Min({Len(data), SCAN_TO}) - 1),
        k \in DOMAIN CHANNEL_COUNTS}

Validating(data) ==
    {p \in CandidatePairs(data) : CandidateValid(data, p[1], p[2])}

Before(p, q) == p[1] < q[1] \/ (p[1] = q[1] /\ p[2] < q[2])

\* C7: the binary parser decodes with the validating (offset, channel count)
\* that comes first when offsets 64..511 ascend in the outer loop and the
\* counts 12..32 ascend in the inner one, whatever validates later; the pair
\* depends on the buffer alone.  Without a validating pair it decodes nothing.
C7_FirstMatch ==
    pc = "binary_done" =>
        LET valid == Validating(decompressed)
        IN  IF valid = {}
            THEN layout = <<>> /\ Len(datalog.records) = 0
            ELSE /\ layout \in valid
                 /\ \A p \in valid : p = layout \/ Before(layout, p)
                 /\ datalog.records =
                        DecodeRows(decompressed, layout[1], layout[2]).records

\* A later offset and a larger count validate too, and the first is taken.
C7_Witness ==
    /\ pc = "binary_done" /\ layout # <<>>
    /\ \E p \in Validating(decompressed) : p[1] > layout[1]
    /\ \E p \in Validating(decompressed) : p[1] = layout[1] /\ p[2] > layout[2]

\* C8: on a buffer shorter than 64 bytes the binary parser returns at once a
\* datalog without records and without parse_errors, and has unpacked no
\* float from the buffer.
C8_ShortBuffer ==
    (pc = "binary_done" /\ Len(decompressed) < 64) =>
        /\ Len(datalog.records) = 0
        /\ datalog.parse_errors = <<>>
        /\ unpack_calls = 0
        /\ layout = <<>>

\* The binary parser has returned on a buffer of 63 bytes.
C8_Witness ==
    /\ pc = "binary_done" /\ Len(decompressed) = 63
    /\ stages[Len(stages)] = "binary" /\ unpack_calls = 0

-----------------------------------------------------------------------------
(* Properties of the statistics engine *)

\* Record i (from 0) reads at or above the threshold, or below it.  A NaN
\* reading is neither.
AtOrAbove(records, thr, i) == AtLeast(get(records[i + 1], "tps_pct", 0), thr)
Below(records, thr, i) == Less(get(records[i + 1], "tps_pct", 0), thr)

\* The maximal runs of consecutive records at or above the threshold, as
\* (first, last).
MaximalRuns(records, thr) ==
    LET last == Len(records) - 1
    IN  {r \in (0..last) \X (0..last) :
            /\ r[1] <= r[2]
            /\ \A i \in r[1]..r[2] : AtOrAbove(records, thr, i)
            /\ r[1] = 0 \/ ~AtOrAbove(records, thr, r[1] - 1)
            /\ r[2] = last \/ ~AtOrAbove(records, thr, r[2] + 1)}

\* The runs by their start and end events, as (first, last): a run starts
\* at a record at or above the threshold that no earlier run is still open
\* at, and lasts up to the record before the next one below the threshold,
\* or up to the last record.
EventRuns(records, thr) ==
    LET last == Len(records) - 1
    IN  {r \in (0..last) \X (0..last) :
            /\ r[1] <= r[2]
            /\ AtOrAbove(records, thr, r[1])
            /\ \A j \in 0..(r[1] - 1) :
                  AtOrAbove(records, thr, j) =>
                      \E k \in (j + 1)..(r[1] - 1) : Below(records, thr, k)
            /\ \A i \in r[1]..r[2] : ~Below(records, thr, i)
            /\ r[2] = last \/ Below(records, thr, r[2] + 1)}

\* The pair get_wot_runs gives for a run: its first index, and the index of
\* the record that closes it, or the last index of the log for an open run.
StandsFor(pair, r, records) ==
    /\ pair[1] = r[1]
    /\ pair[2] = IF r[2] = Len(records) - 1 THEN r[2] ELSE r[2] + 1

\* The pairs are those of the runs of more than 3 records among all, and
\* they ascend strictly by start, each ending below the start of the next.
PairsOfLongRuns(pairs, all, records) ==
    LET long == {r \in all : r[2] - r[1] + 1 > 3}
    IN  /\ \A k \in DOMAIN pairs :
              \E r \in long : StandsFor(pairs[k], r, records)
        /\ \A r \in long :
              \E k \in DOMAIN pairs : StandsFor(pairs[k], r, records)
        /\ \A k \in 1..(Len(pairs) - 1) :
              pairs[k][1] < pairs[k + 1][1] /\ pairs[k][2] < pairs[k + 1][1]

C4_RunRecords ==
    op = "analyze_wot_afr" =>
        \A k \in DOMAIN out.wot_runs :
            \A r \in EventRuns(log.records, 850) :
                r[1] = out.wot_runs[k].start_idx =>
                    out.wot_runs[k] = WotRunStats(log.records, <<r[1], r[2] + 1>>)

IsZero(q) == q.n = 0 /\ q.d > 0

\* C5: get_full_analysis of a datalog without records returns the eleven
\* keys, with every count and maximum 0, both averages 0 and both has-data
\* flags false.
C5_EmptyLog ==
    (op = "get_full_analysis" /\ Len(log.records) = 0) =>
        /\ DOMAIN out =
              {"file", "duration_sec", "sample_rate", "total_records",
               "max_rpm", "max_tps", "wot_analysis", "ae_analysis",
               "idle_analysis", "timing_analysis", "metadata"}
        /\ out.total_records = 0
        /\ IsZero(out.duration_sec)
        /\ out.max_rpm = 0 /\ out.max_tps = 0
        /\ out.wot_analysis.total_wot_runs = 0
        /\ IsZero(out.wot_analysis.overall_avg_afr)
        /\ out.ae_analysis.total_ae_events = 0
        /\ out.ae_analysis.lean_ae_events = 0
        /\ out.ae_analysis.rich_ae_events = 0
        /\ out.idle_analysis.has_idle_data = FALSE
        /\ out.timing_analysis.has_timing_data = FALSE

C5_Witness ==
    /\ op = "get_full_analysis" /\ Len(log.records) = 0
    /\ out.total_records = 0 /\ out.wot_analysis.wot_runs = <<>>

\* The lookup of out was for a channel the record does not hold.
MissingLookup == out.channel \notin DOMAIN log.records[out.index]

\* C6: every lookup of a channel the record does not hold gives 0.0 and does
\* not fail: record.get(name), record.<name> and get_channel_data(name).
C6_DefaultZero ==
    /\ (op \in {"record.get", "record.getattr"} /\ MissingLookup) =>
          out.result = Value(0)
    /\ op = "get_channel_data" =>
          \A i \in DOMAIN log.records :
              out.channel \notin DOMAIN log.records[i] => out.result[i] = 0

\* C6 as the code has it: for a channel the record does not hold,
\* record.get(name) gives None, record.<name> raises AttributeError, and
\* get_channel_data(name) gives 0.0 at that record.
C6_MissingChannel ==
    /\ (op = "record.get" /\ MissingLookup) => out.result = PyNone
    /\ (op = "record.getattr" /\ MissingLookup) =>
          out.result = Raises("AttributeError")
    /\ op = "get_channel_data" =>
          \A i \in DOMAIN log.records :
              out.channel \notin DOMAIN log.records[i] => out.result[i] = 0

C6_Witness ==
    /\ op = "record.get" /\ MissingLookup
    /\ out.channel = "tps_pct" /\ out.result.kind = "None"

-----------------------------------------------------------------------------
(* Properties of the CSV export *)

\* Every field of every data line of txt is a number.
NumericOnly(txt) ==
    LET lines == Split(Strip(txt), NEWLINE)
        delimiter == IF COMMA \in Range(lines[1]) THEN COMMA ELSE TAB
    IN  \A i \in 2..Len(lines) :
            \A k \in DOMAIN Split(lines[i], delimiter) :
                ParseFloat(StripChar(Strip(Split(lines[i], delimiter)[k]),
                                     QUOTE)).ok

\* to_csv has run on the datalog the text parser made of text.
Exported == csv_pc \in {"written", "reparsed"}

\* The written text exists, and once parsed again it has the channels and
\* the records, values included, of the datalog it was written from.
SameAfterRoundTrip ==
    /\ csv_file.exists
    /\ csv_pc = "reparsed" =>
          /\ reparsed.channels = parsed.channels
          /\ reparsed.records = parsed.records

\* C9: for every datalog the text parser makes of numeric delimited text,
\* to_csv followed by the text parser gives back the same channels, the same
\* number of records and the same values, all in the same order.
C9_RoundTrip == (Exported /\ NumericOnly(text)) => SameAfterRoundTrip

\* No channel name of the datalog holds a double quote.
PlainNames == \A k \in DOMAIN parsed.channels : QUOTE \notin Range(parsed.channels[k])

\* What does hold of the round trip: it gives back channels, records and
\* values for a datalog of numeric delimited text that has at least one
\* record and no double quote in a channel name.
RoundTripOfPlainRecords ==
    (Exported /\ NumericOnly(text) /\ Len(parsed.records) > 0 /\ PlainNames)
        => SameAfterRoundTrip

\* The lines of the written file, and the number a written field holds.
WrittenLines == Split(csv_file.content, NEWLINE)
WrittenNumber(field) == ParseFloat(Strip(field))

\* The file holds one header row with the channel names in channel order,
\* then one row per record in record order with the record's value of each
\* channel in channel order, and nothing else.
HeaderAndRows ==
    /\ csv_file.exists
    /\ Len(WrittenLines) = Len(parsed.records) + 2
    /\ WrittenLines[Len(WrittenLines)] = <<>>
    /\ WrittenLines[1] =
          Join([k \in DOMAIN parsed.channels |->
                   CsvField(parsed.channels[k], Len(parsed.channels) = 1)],
               <<COMMA>>) \o <<CR>>
    /\ \A i \in DOMAIN parsed.records :
          LET fields == Split(WrittenLines[i + 1], COMMA)
          IN  /\ Len(fields) = Len(parsed.channels)
              /\ \A k \in DOMAIN fields :
                    /\ WrittenNumber(fields[k]).ok
                    /\ WrittenNumber(fields[k]).val =
                          parsed.records[i][parsed.channels[k]]

-----------------------------------------------------------------------------
(* Classification of acceleration-enrichment events *)

\* The enrichment flag of the record at index i (from 0).
AeFlag(i) == get(log.records[i + 1], "ae_active", 0) # 0

\* The spans of the log from a rising edge of the flag to the falling edge
\* that follows it, as (index of the first flagged record, index of the
\* first record behind it that is not flagged).
AeSpans ==
    LET last == Len(log.records) - 1
    IN  {sp \in (0..last) \X (0..last) :
            /\ sp[1] < sp[2]
            /\ \A i \in sp[1]..(sp[2] - 1) : AeFlag(i)
            /\ sp[1] = 0 \/ ~AeFlag(sp[1] - 1)
            /\ ~AeFlag(sp[2])}

\* The afr readings from the start of a span to ten records behind its
\* end, or to the last record of the log; 14.7 for a record without afr.
AeTrace(sp) ==
    LET to == IF sp[2] + 10 < Len(log.records)
              THEN sp[2] + 10 ELSE Len(log.records)
    IN  [k \in 1..(to - sp[1]) |-> get(log.records[sp[1] + k], "afr", 147)]

\* The spans whose trace is on average above, and below, a reading.
MeanAbove(afr) == {sp \in AeSpans : Sum(AeTrace(sp)) > afr * Len(AeTrace(sp))}
MeanBelow(afr) == {sp \in AeSpans : Sum(AeTrace(sp)) < afr * Len(AeTrace(sp))}

\* C11: an enrichment event is counted lean exactly when the mean of its
\* trace is above 14.0 and rich exactly when it is below 11.5; an event
\* whose mean is 14.0, 11.5 or between them is counted in neither, and no
\* event is counted in both.
C11_StrictBounds ==
    op = "analyze_acceleration_enrichment" =>
        /\ \A sp \in AeSpans : Len(AeTrace(sp)) > 0
        /\ out.lean_ae_events = Cardinality(MeanAbove(140))
        /\ out.rich_ae_events = Cardinality(MeanBelow(115))
        /\ MeanAbove(140) \cap MeanBelow(115) = {}

\* An analysis whose events are counted in neither class, one of them with
\* a trace of mean exactly 14.0 that was cut ten records after its end.
C11_Witness ==
    /\ op = "analyze_acceleration_enrichment"
    /\ out.total_ae_events >= 1
    /\ out.lean_ae_events = 0 /\ out.rich_ae_events = 0
    /\ \E k \in DOMAIN out.ae_events :
          /\ Sum(out.ae_events[k].afr_during)
                = 140 * Len(out.ae_events[k].afr_during)
          /\ out.ae_events[k].end + 10 < Len(log.records)

-----------------------------------------------------------------------------
(* The idle filter *)

\* The records of the log at idle: rpm read and strictly between 400 and
\* 1200, throttle below 5 % or not read at all.
IdleIndices ==
    {i \in DOMAIN log.records :
        LET r == log.records[i]
        IN  /\ "rpm" \in DOMAIN r /\ r.rpm # NAN
            /\ 4000 < r.rpm /\ r.rpm < 12000
            /\ "tps_pct" \in DOMAIN r => (r.tps_pct # NAN /\ r.tps_pct < 50)}

\* C12: analyze_idle returns has_idle_data = false and no other field
\* exactly when no record is at idle; otherwise has_idle_data = true with
\* idle_samples the number of records at idle, at least 1.
C12_IdleFilter ==
    op = "analyze_idle" =>
        IF IdleIndices = {}
        THEN out = [has_idle_data |-> FALSE]
        ELSE /\ out.has_idle_data
             /\ out.idle_samples = Cardinality(IdleIndices)
             /\ out.idle_samples >= 1
             /\ out.avg_rpm.d = out.idle_samples

\* An idle analysis of two records that counts one of them, the other
\* reading rpm 400, rpm 1200 or throttle 5 %.
C12_Witness ==
    /\ op = "analyze_idle"
    /\ Len(log.records) = 2
    /\ out.has_idle_data /\ out.idle_samples = 1
    /\ \E i \in DOMAIN log.records :
          \/ get(log.records[i], "rpm", 0) \in {4000, 12000}
          \/ get(log.records[i], "tps_pct", 0) = 50

-----------------------------------------------------------------------------
(* The fallback chain of parse_dlz_file *)

StageOrder ==
    <<"read", "zlib", "deflate", "decompress", "text", "binary", "raw">>
StageRank(stage) == CHOOSE k \in DOMAIN StageOrder : StageOrder[k] = stage

\* The decoded text has a comma or a tab among its first 500 characters.
DelimiterInFirst500 ==
    \E i \in DOMAIN decompressed :
        i <= 500 /\ Utf8Decode(decompressed)[i] \in {COMMA, TAB}

\* What the text parser makes of the decoded buffer.
TextResult == parse_text_datalog(Utf8Decode(decompressed), filepath)

\* C13: the stages run in the order decompression, text, binary, raw; the
\* text parser runs only on a buffer with a comma or tab among its first
\* 500 characters; the binary parser runs only if the text parser did not
\* run or gave no record, raw extraction only if the binary parser gave no
\* record either; the call returns the datalog of the first stage that
\* gave a record, else the datalog of the raw extraction.
C13_StageOrder ==
    /\ \A i, j \in DOMAIN stages :
          i < j => StageRank(stages[i]) < StageRank(stages[j])
    /\ pc \in {"binary", "binary_scan", "binary_done", "note", "raw"}
          \/ (pc = "done" /\ file.readable)
       => /\ "decompress" \in Range(stages)
          /\ "text" \in Range(stages) <=> DelimiterInFirst500
    /\ "binary" \in Range(stages) =>
          (DelimiterInFirst500 => Len(TextResult.records) = 0)
    /\ "raw" \in Range(stages) =>
          /\ "binary" \in Range(stages)
          /\ layout = <<>>
    /\ (pc = "done" /\ file.readable) =>
          IF DelimiterInFirst500 /\ Len(TextResult.records) > 0
          THEN /\ stages[Len(stages)] = "text"
               /\ datalog = TextResult
          ELSE IF layout # <<>>
          THEN /\ stages[Len(stages)] = "binary"
               /\ Len(datalog.records) > 0
               /\ datalog.records =
                      DecodeRows(decompressed, layout[1], layout[2]).records
          ELSE /\ stages[Len(stages)] = "raw"
               /\ datalog = extract_from_raw(decompressed, filepath)

\* The text parser ran on a buffer and gave no record, the binary parser
\* then decoded rows, and the call returned them.
C13_Witness ==
    /\ pc = "done"
    /\ "text" \in Range(stages)
    /\ stages[Len(stages)] = "binary"
    /\ Len(datalog.records) > 0

-----------------------------------------------------------------------------
(* A file that cannot be opened or read *)

\* name is what follows the last '/' of path, or path if it has none.
IsBaseName(name, path) ==
    /\ \A i \in DOMAIN name : name[i] # SLASH
    /\ \E prefix \in {SubSeq(path, 1, n) : n \in 0..Len(path)} :
          /\ path = prefix \o name
          /\ prefix = <<>> \/ prefix[Len(prefix)] = SLASH

\* C14: for a file that cannot be opened or read the call raises nothing
\* and returns a datalog without records, channels and metadata, with the
\* one diagnostic of the read failure in parse_errors and with the base
\* name of the path as filename.
C14_Unreadable ==
    (pc = "done" /\ ~file.readable) =>
        /\ ~raised
        /\ datalog.records = <<>>
        /\ datalog.channels = <<>>
        /\ datalog.metadata = EmptyDict
        /\ datalog.parse_errors = <<ReadErrorNote>>
        /\ IsBaseName(datalog.filename, filepath)
        /\ stages = <<"read">>

\* The call has returned for an unreadable file named with a directory.
C14_Witness ==
    /\ pc = "done" /\ ~file.readable
    /\ \E i \in DOMAIN filepath : filepath[i] = SLASH
    /\ datalog.filename # filepath
    /\ datalog.parse_errors = <<ReadErrorNote>>

-----------------------------------------------------------------------------
(* The analyses read the datalog and leave it as it is *)

\* What the call named by op returns on a datalog.
ResultOn(dl) ==
    CASE op = "analyze_wot_afr" -> analyze_wot_afr(dl.records)
      [] op = "analyze_acceleration_enrichment" ->
            analyze_acceleration_enrichment(dl.records)
      [] op = "analyze_idle" -> analyze_idle(dl.records)
      [] op = "analyze_timing" -> analyze_timing(dl.records)
      [] op = "get_full_analysis" -> get_full_analysis(dl)
      [] OTHER -> <<>>

\* C15: no analysis and no full analysis changes the datalog, so whatever
\* calls came before, a call returns what it returns on the datalog as it
\* was first, and a full analysis right after a full analysis returns an
\* equal result.
C15_DatalogUnchanged ==
    /\ [][log' = log]_vars
    /\ [](out = ResultOn(log))
    /\ [][(op = "get_full_analysis" /\ op' = "get_full_analysis")
            => out' = out]_vars

\* A full analysis has run on a log of two records with idle data.
C15_Witness ==
    /\ op = "get_full_analysis"
    /\ out.total_records = 2
    /\ out.idle_analysis.has_idle_data
    /\ log.records # <<>>

-----------------------------------------------------------------------------
(* The analysis of the generated drag pass *)

\* The phases of a drag pass as the generator lays them out.
DragPassShape ==
    /\ Len(log.records) = 450
    /\ \A n \in 1..90 :
          /\ log.records[n].rpm \in 8200..8800
          /\ log.records[n].tps_pct \in 20..30
    /\ \A n \in 91..390 :
          IF n - 91 \in (75..81) \cup (165..171)
          THEN log.records[n].tps_pct \in 200..400
          ELSE /\ log.records[n].tps_pct >= 920
               /\ log.records[n].afr \in 122..132
    /\ \A n \in 391..450 : log.records[n].tps_pct \in 30..70

\* The overall average of a WOT analysis lies in 12.2 .. 13.2.
OverallInRange(wot) ==
    /\ wot.total_wot_runs >= 1
    /\ 122 * wot.overall_avg_afr.d <= wot.overall_avg_afr.n
    /\ wot.overall_avg_afr.n <= 132 * wot.overall_avg_afr.d

\* C16: whatever the draws, the datalog generated for drag_pass has the
\* three phases as described, and its analysis reports at least one WOT
\* run, idle data, and an overall average AFR from 12.2 to 13.2.
C16_DragPass ==
    (op # "generate" /\ log.metadata.scenario = E("drag_pass")) =>
        /\ DragPassShape
        /\ op = "analyze_wot_afr" => OverallInRange(out)
        /\ op = "get_full_analysis" =>
              /\ OverallInRange(out.wot_analysis)
              /\ out.idle_analysis.has_idle_data
              /\ out.idle_analysis.idle_samples = 90

\* The full analysis of a drag pass whose afr draws are all low: three WOT
\* runs with an overall average of exactly 12.2.
C16_Witness ==
    /\ op = "get_full_analysis"
    /\ out.total_records = 450
    /\ out.wot_analysis.total_wot_runs = 3
    /\ out.wot_analysis.overall_avg_afr.n
          = 122 * out.wot_analysis.overall_avg_afr.d
    /\ out.idle_analysis.has_idle_data

-----------------------------------------------------------------------------
(* A file neither parser reads *)

\* C17: when neither the text parser nor the binary parser found a record
\* in a readable file, the datalog returned holds generated records and is
\* marked as generated.
C17_SyntheticData ==
    (pc = "done" /\ file.readable /\ stages[Len(stages)] = "raw") =>
        /\ Len(datalog.records) > 0
        /\ "generated" \in DOMAIN datalog.metadata

-----------------------------------------------------------------------------
(* One record per well-formed line *)

\* The lines of a text: what the line feeds separate, without the empty
\* piece behind a final line feed.
TextLines(txt) ==
    LET pieces == Split(txt, NEWLINE)
    IN  IF Len(pieces) > 1 /\ pieces[Len(pieces)] = <<>>
        THEN SubSeq(pieces, 1, Len(pieces) - 1)
        ELSE pieces

\* The data lines of a text that have as many fields as its header line.
WellFormedLines(txt) ==
    LET lines == TextLines(txt)
        delimiter == IF COMMA \in Range(lines[1]) THEN COMMA ELSE TAB
    IN  SelectSeq(Tail(lines),
            LAMBDA line : Len(Split(line, delimiter))
                            = Len(Split(lines[1], delimiter)))

\* C19: the text parser gives one record, in file order, for each line
\* behind the header that has as many fields as the header, the last line
\* and a line ending in an empty field included, and no record and no
\* parse_errors entry for any other line.
C19_RecordPerLine ==
    csv_pc = "parsed" =>
        LET lines == WellFormedLines(text)
            delimiter == IF COMMA \in Range(TextLines(text)[1])
                         THEN COMMA ELSE TAB
        IN  /\ parsed.parse_errors = <<>>
            /\ Len(parsed.records) = Len(lines)
            /\ \A i \in DOMAIN lines :
                  parsed.records[i] =
                      RecordData(parsed.channels, Split(lines[i], delimiter))

-----------------------------------------------------------------------------
(* The decompression block *)

\* The file name ends in .dlz, whatever the case of its letters.
DlzName ==
    /\ Len(filepath) >= 4
    /\ Lower(SubSeq(filepath, Len(filepath) - 3, Len(filepath))) = E(".dlz")

\* The calls of zlib.decompress made so far, in order.
AttemptsMade == SelectSeq(stages, LAMBDA st : st \in {"zlib", "deflate"})

\* C18: decompression raises nothing; for a name ending in .dlz it gives
\* what zlib inflates the bytes to, else what raw deflate inflates them to,
\* else the bytes as read, and raw deflate is tried only after zlib has
\* failed; for any other name it gives the bytes as read and tries nothing.
C18_Decompression ==
    "decompress" \in Range(stages) =>
        /\ ~raised
        /\ IF DlzName
           THEN IF file.zlib.ok
                THEN /\ decompressed = file.zlib.bytes
                     /\ AttemptsMade = <<"zlib">>
                ELSE /\ AttemptsMade = <<"zlib", "deflate">>
                     /\ decompressed = IF file.deflate.ok
                                       THEN file.deflate.bytes ELSE raw_data
           ELSE /\ decompressed = raw_data
                /\ AttemptsMade = <<>>

\* A .dlz file that zlib inflates and raw deflate would inflate to other
\* bytes has been decompressed.
C18_Witness ==
    /\ "decompress" \in Range(stages)
    /\ DlzName
    /\ file.zlib.ok /\ file.deflate.ok
    /\ file.zlib.bytes # file.deflate.bytes
    /\ decompressed = file.zlib.bytes

-----------------------------------------------------------------------------
(* What the binary parser accepts *)

\* Float ch of row row of the buffer laid out in rows of n floats from
\* offset o.
FloatAt(o, n, row, ch) == unpack_f(decompressed, o + (row * n + ch) * 4)

\* The row has one of its first 4 floats in 0..8000 and one of its first 8
\* floats in 10..250.
PlausibleAt(o, n, row) ==
    /\ \E ch \in 0..3 : rpm_like(FloatAt(o, n, row, ch))
    /\ \E ch \in 0..7 : map_like(FloatAt(o, n, row, ch))

\* The buffer has room for ten rows of n floats from offset o.
RoomForTen(o, n) == o + 10 * n * 4 <= Len(decompressed)

\* No offset 64..511 inside the buffer and no channel count has room for
\* ten rows that are all plausible.
NoneValidates ==
    \A o \in 64..(Min({Len(decompressed), 512}) - 1) :
        \A n \in {12, 16, 20, 24, 28, 32} :
            RoomForTen(o, n) => \E row \in 0..9 : ~PlausibleAt(o, n, row)

\* C20: the binary parser returns records only for a layout with room for
\* ten rows whose first ten rows are all plausible, and when no layout of
\* the search validates it returns no record and raises nothing.
C20_Acceptance ==
    pc = "binary_done" =>
        /\ ~raised
        /\ Len(datalog.records) > 0 =>
              /\ layout # <<>>
              /\ RoomForTen(layout[1], layout[2])
              /\ \A row \in 0..9 : PlausibleAt(layout[1], layout[2], row)
        /\ NoneValidates =>
              /\ Len(datalog.records) = 0
              /\ datalog.parse_errors = <<>>

\* The parser returned no record for a buffer with room for ten rows of 12
\* floats at offset 64 of which the first nine are plausible and the tenth
\* is not.
C20_Witness ==
    /\ pc = "binary_done"
    /\ Len(datalog.records) = 0
    /\ RoomForTen(64, 12)
    /\ \A row \in 0..8 : PlausibleAt(64, 12, row)
    /\ ~PlausibleAt(64, 12, 9)

-----------------------------------------------------------------------------
(* The channels of a decoded layout *)

\* C21: a datalog decoded with channel count n has exactly n channel
\* names, the first n of the catalog in catalog order, and every record
\* of it holds exactly n values, one per float of its row.
C21_ChannelCount ==
    (pc = "binary_done" /\ layout # <<>>) =>
        /\ Len(datalog.channels) = layout[2]
        /\ \A k \in DOMAIN datalog.channels :
              datalog.channels[k] = SNIPER_CHANNELS[k]
        /\ \A r \in DOMAIN datalog.records :
              Cardinality(DOMAIN datalog.records[r]) = layout[2]

-----------------------------------------------------------------------------
(* The rows of a decoded layout *)

\* C22: a datalog decoded with layout (offset, n) has one record for every
\* full row of 4 * n bytes between offset and the end of the buffer, the
\* ten rows tested among them; record k (from 0) holds the floats of the
\* row at offset + k * 4 * n, and trailing bytes short of a row give none.
C22_AllFullRows ==
    (pc = "binary_done" /\ layout # <<>>) =>
        LET o == layout[1]
            n == layout[2]
        IN  /\ Len(datalog.records) = (Len(decompressed) - o) \div (4 * n)
            /\ Len(datalog.records) >= 10
            /\ \A k \in DOMAIN datalog.records :
                  \A c \in DOMAIN datalog.channels :
                      datalog.records[k][datalog.channels[c]] =
                          unpack_f(decompressed,
                                   o + (k - 1) * 4 * n + (c - 1) * 4)

\* A layout was decoded to eleven records and bytes short of a row are
\* left behind the last one.
C22_Witness ==
    /\ pc = "binary_done" /\ layout # <<>>
    /\ Len(datalog.records) = 11
    /\ (Len(decompressed) - layout[1]) % (4 * layout[2]) # 0

-----------------------------------------------------------------------------
(* The raw scan *)

\* The offsets 0, 4, 8, ... of the buffer at which four bytes lie, and those
\* of them whose float is no NaN and strictly between -1000 and 10000.
AlignedFloats == {i \in 0..(Len(decompressed) - 4) : i % 4 = 0}
KeptFloats == {i \in AlignedFloats : raw_like(unpack_f(decompressed, i))}

\* C23: raw extraction raises nothing, gives no record, and leaves in the
\* metadata the number of floats kept over all aligned offsets of the
\* buffer with a whole float, and the length of the buffer.
C23_RawScan ==
    (pc = "done" /\ file.readable /\ stages[Len(stages)] = "raw") =>
        /\ ~raised
        /\ datalog.records = <<>>
        /\ datalog.metadata =
              [raw_floats_found |-> Cardinality(KeptFloats),
               file_size_bytes |-> Len(decompressed)]

\* What does hold of the raw scan: it looks at the aligned offsets below
\* len - 4 only, and leaves the metadata empty when it kept nothing.
RawScanBelowLast ==
    (pc = "done" /\ file.readable /\ stages[Len(stages)] = "raw") =>
        LET kept == {i \in KeptFloats : i < Len(decompressed) - 4}
        IN  /\ ~raised
            /\ datalog.records = <<>>
            /\ datalog.metadata =
                  IF kept = {} THEN EmptyDict
                  ELSE [raw_floats_found |-> Cardinality(kept),
                        file_size_bytes |-> Len(decompressed)]

-----------------------------------------------------------------------------
(* The aggregate of the WOT analysis *)

\* C24: analyze_wot_afr reports as many runs as get_wot_runs returns at
\* threshold 85, one entry per run in the same order, and as overall
\* average the mean of the run averages, each run counting once, or 0
\* without a run.
C24_MeanOfMeans ==
    op = "analyze_wot_afr" =>
        LET runs == get_wot_runs(log.records, 850)
            count == Len(runs)
            avgs == [k \in DOMAIN out.wot_runs |-> out.wot_runs[k].avg_afr]
        IN  /\ out.total_wot_runs = count
            /\ Len(out.wot_runs) = count
            /\ \A k \in DOMAIN runs :
                  /\ out.wot_runs[k].start_idx = runs[k][1]
                  /\ out.wot_runs[k].end_idx = runs[k][2]
            /\ IF count = 0 THEN IsZero(out.overall_avg_afr)
               ELSE RatEq(Rat(out.overall_avg_afr.n * count,
                              out.overall_avg_afr.d),
                          RatSum(avgs))

\* Two runs averaged over 4 and over 3 records: the overall average is the
\* middle of the two run averages.
C24_Witness ==
    /\ op = "analyze_wot_afr"
    /\ out.total_wot_runs = 2
    /\ out.wot_runs[1].avg_afr.d # out.wot_runs[2].avg_afr.d
    /\ RatEq(Rat(2 * out.overall_avg_afr.n, out.overall_avg_afr.d),
             RatAdd(out.wot_runs[1].avg_afr, out.wot_runs[2].avg_afr))

-----------------------------------------------------------------------------
(* The fields of an enrichment event *)

\* The tps_roc reading of the record at index i (from 0), 0 when absent.
TpsRoc(i) == get(log.records[i + 1], "tps_roc", 0)

-----------------------------------------------------------------------------
(* Events without a measured ratio *)

\* The spans none of whose trace records carries an afr reading.
UnmeasuredSpans ==
    {sp \in AeSpans :
        \A k \in DOMAIN AeTrace(sp) :
            "afr" \notin DOMAIN log.records[sp[1] + k]}

\* C26: an event with no afr reading in its trace is evaluated with 14.7
\* and counted neither lean nor rich.
C26_NeutralDefault ==
    (op = "analyze_acceleration_enrichment" /\ UnmeasuredSpans = AeSpans) =>
        /\ \A k \in DOMAIN out.ae_events :
              \A j \in DOMAIN out.ae_events[k].afr_during :
                  out.ae_events[k].afr_during[j] = 147
        /\ out.lean_ae_events = 0
        /\ out.rich_ae_events = 0

-----------------------------------------------------------------------------
(* The timing summary *)

\* The indices (from 1) of the records with rpm above 500.
FastIndices ==
    {i \in DOMAIN log.records : Greater(get(log.records[i], "rpm", 0), 5000)}

\* 500 * floor(rpm / 500) of the record at index i.
BandOf(i) == 500 * (get(log.records[i], "rpm", 0) \div 5000)

\* The ign_timing_deg readings that fall into a band.
BandTimings(band) ==
    {get(log.records[i], "ign_timing_deg", 0) :
        i \in {j \in FastIndices : BandOf(j) = band}}

\* C27: analyze_timing returns has_timing_data = false exactly when no
\* record has rpm > 500; otherwise the bands are the values
\* 500 * floor(rpm / 500) of the records with rpm > 500, each a multiple of
\* 500 and at least 500, each holding the timings of its records with
\* min <= avg <= max, and overall_min / overall_max are the least band
\* minimum and the greatest band maximum.
C27_TimingBands ==
    op = "analyze_timing" =>
        /\ "has_timing_data" \in DOMAIN out
        /\ out.has_timing_data = (FastIndices # {})
        /\ out.has_timing_data =>
              /\ DOMAIN out.by_rpm_band = {BandOf(i) : i \in FastIndices}
              /\ \A band \in DOMAIN out.by_rpm_band :
                    LET b == out.by_rpm_band[band]
                    IN  /\ band % 500 = 0 /\ band >= 500
                        /\ BandTimings(band) # {}
                        /\ b.min = Min(BandTimings(band))
                        /\ b.max = Max(BandTimings(band))
                        /\ ~RatLess(b.avg, Rat(b.min, 1))
                        /\ ~RatLess(Rat(b.max, 1), b.avg)
              /\ out.overall_min
                    = Min({out.by_rpm_band[band].min :
                             band \in DOMAIN out.by_rpm_band})
              /\ out.overall_max
                    = Max({out.by_rpm_band[band].max :
                             band \in DOMAIN out.by_rpm_band})

-----------------------------------------------------------------------------
(* Events and falling edges *)

\* The indices (from 0) at which the flag falls: not flagged, behind a
\* flagged record.
FallingEdges ==
    {i \in 1..(Len(log.records) - 1) : ~AeFlag(i) /\ AeFlag(i - 1)}

\* C28: total_ae_events is the number of falling edges of the flag, and
\* every event ends at one; a span still flagged at the last record of the
\* log gives no event.
C28_FallingEdges ==
    op = "analyze_acceleration_enrichment" =>
        /\ out.total_ae_events = Cardinality(FallingEdges)
        /\ \A k \in DOMAIN out.ae_events :
              out.ae_events[k].end \in FallingEdges
        /\ out.lean_ae_events + out.rich_ae_events
              <= Cardinality(FallingEdges)

\* An analysis of a log with one closed span and a span still flagged at
\* the last record.
C28_Witness ==
    /\ op = "analyze_acceleration_enrichment"
    /\ Len(log.records) >= 3
    /\ AeFlag(Len(log.records) - 1)
    /\ out.total_ae_events = 1

-----------------------------------------------------------------------------
(* The listed events and the counts *)

\* The spans that start before a span.
SpansBefore(sp) == {other \in AeSpans : other[1] < sp[1]}

\* C29: ae_events lists the first min(total_ae_events, 20) events in
\* order, total_ae_events, lean_ae_events and rich_ae_events count all
\* events of the log, and lean_ae_events + rich_ae_events is at most
\* total_ae_events.
C29_ListedAndCounted ==
    op = "analyze_acceleration_enrichment" =>
        /\ out.total_ae_events = Cardinality(AeSpans)
        /\ Len(out.ae_events) = Min({out.total_ae_events, 20})
        /\ \A k \in DOMAIN out.ae_events :
              LET sp == <<out.ae_events[k].start, out.ae_events[k].end>>
              IN  sp \in AeSpans /\ Cardinality(SpansBefore(sp)) = k - 1
        /\ out.lean_ae_events
              = Cardinality({sp \in AeSpans :
                    RatLess(Rat(140, 1), Mean(AeTrace(sp)))})
        /\ out.rich_ae_events
              = Cardinality({sp \in AeSpans :
                    RatLess(Mean(AeTrace(sp)), Rat(115, 1))})
        /\ out.lean_ae_events + out.rich_ae_events <= out.total_ae_events

\* An analysis that found 22 events, all of them lean, and listed 20.
C29_Witness ==
    /\ op = "analyze_acceleration_enrichment"
    /\ out.total_ae_events = 22
    /\ out.lean_ae_events = 22
    /\ Len(out.ae_events) = 20
    /\ out.ae_events[20].start = 38

-----------------------------------------------------------------------------
(* The smallest buffer the binary parser accepts *)

\* Offset 64 and ten rows of twelve floats.
SmallestImage == 64 + 10 * 12 * 4

\* The text parser ran on the buffer and gave a record.
ParsedAsText == DelimiterInFirst500 /\ Len(TextResult.records) > 0

\* C30: the binary parser gives records only for a buffer of at least 544
\* bytes; on a shorter buffer it validates no layout and gives no record,
\* and parse_dlz_file on a readable file with such a buffer that the text
\* parser gave no record for ends in raw extraction, without a record.
C30_SmallestImage ==
    /\ (pc = "binary_done" /\ Len(datalog.records) > 0) =>
          Len(decompressed) >= SmallestImage
    /\ (pc = "binary_done" /\ Len(decompressed) < SmallestImage) =>
          /\ layout = <<>>
          /\ Len(datalog.records) = 0
    /\ (/\ pc = "done" /\ file.readable
        /\ Len(decompressed) < SmallestImage
        /\ ~ParsedAsText) =>
          /\ ~raised
          /\ stages[Len(stages)] = "raw"
          /\ "binary" \in Range(stages)
          /\ Len(datalog.records) = 0

\* A call that ended in raw extraction on a buffer of 543 bytes, all of
\* them plausible floats.
C30_Witness ==
    /\ pc = "done" /\ file.readable
    /\ Len(decompressed) = SmallestImage - 1
    /\ stages[Len(stages)] = "raw"
    /\ Len(datalog.records) = 0
    /\ \A row \in 0..8 : PlausibleAt(64, 12, row)

=============================================================================
